---- MODULE Spec2Model ----
(***************************************************************************)
(* Generation orchestration and conversation sessions of SWAG-Golf.        *)
(*                                                                         *)
(* Three specifications share the variables below:                         *)
(*   SpecWorker  - one generation/refine worker, attempt by attempt        *)
(*   SpecGen     - one request: synchronous generate (generate_async has   *)
(*                 the same steps), synchronous refine, or streaming       *)
(*                 generate; validation, fan-out, collection, saving,      *)
(*                 metadata, events, session turn                          *)
(*   SpecSession - sequential operations on the session store              *)
(* A specification leaves the variables of the others at their initial     *)
(* value.                                                                  *)
(*                                                                         *)
(* Python lists are sequences: slot i (0-based) is position i + 1.         *)
(***************************************************************************)
EXTENDS Integers, Sequences, FiniteSets, TLC

None == [none |-> TRUE]

\* ------------------------------------------------------------------ bounds
MaxReqImages == 4        \* largest valid num_images a synchronous generate asks for
MaxSources == 3          \* longest source_images list of a refine
MaxIndex == 1            \* largest slot index of the single worker of SpecWorker
MaxTransient == 3        \* transient upstream failures injected into one stream
MaxOps == 4              \* operations of one SpecSession run
NumThreads == 2          \* SpecConc: requests running at the same time
MaxEmbeddings == 3       \* SpecRetrieve: embeddings of the style's index
MaxTopK == 2             \* SpecRetrieve: largest top_k argument
MaxRefImages == 2        \* SpecIndex: reference images of the style
MaxReads == 2            \* SpecIndex: get_embeddings calls
MaxBuilds == 1            \* SpecIndex: build_index calls
MaxChanges == 2          \* SpecStyle: changes of the style's image set
MaxStreamSources == 2    \* longest source list of a streaming refine
MaxExcess == 5           \* SpecPrune: directories of a style beyond the limit
MaxOtherDirs == 1        \* SpecPrune: directories of another style
MaxRequests == 2         \* SpecPrune: requests that end with a prune
MaxOver == 1             \* SpecBracket: images or sources asked for beyond the limit of 6
MaxLongOps == 21         \* SpecFeedback: operations of one run
MaxOtherTurns == 1       \* SpecFeedback: generate and refine turns in the context
MaxAnchorOps == 5        \* SpecAnchor: requests of one run
MaxExtraFeedback == 1    \* SpecRace: add_feedback requests beyond the threshold
TicksPerSecond == 2      \* SpecOutputs: clock ticks in one second
MaxClock == 3            \* SpecOutputs: last tick of the clock
MaxSaved == 2            \* SpecOutputs: images a request saves

\* ------------------------------------------------------- program constants
max_retries == 3
MinImages == 3
MaxImages == 6
FeedbackThreshold == 10
ConfigTopK == 5          \* RetrievalConfig.top_k
MAX_GENERATIONS_PER_STYLE == 100

\* ------------------------------------------------------------------ worker
\* What one upstream generate_content call can do.
ImageResponses == {"image"}
\* responses that fail the worker's own validation (RuntimeError raised inside the try)
InvalidResponses == {"no_candidates", "no_content", "no_image_data", "bad_magic"}
\* exceptions raised by the upstream call, by what their message contains
TransientErrors == {"exc_503", "exc_429", "exc_unavailable"}
OtherErrors == {"exc_quota", "exc_other"}
Responses == ImageResponses \cup InvalidResponses \cup TransientErrors \cup OtherErrors

\* is_retryable = '503' in msg or '429' in msg or 'unavailable' in msg.lower()
Mut_is_retryable(resp) == resp \in TransientErrors \cup OtherErrors
is_retryable(resp) == resp \in TransientErrors

\* the RuntimeError the worker raises for a response; its message names image index + 1
ErrorMessage(resp, index) ==
    [msg |-> IF resp \in {"no_image_data", "bad_magic"} THEN "no_image_data"
             ELSE IF resp \in InvalidResponses THEN resp
             ELSE IF resp \in {"exc_429", "exc_quota"} THEN "quota_exceeded"
             ELSE "failed",
     image |-> index + 1]

\* the guard of the retry branch
MutRetryGuard(resp, attempt) == is_retryable(resp) /\ attempt < max_retries
RetryGuard(resp, attempt) == is_retryable(resp) /\ attempt < max_retries - 1

\* wait = 2 ** attempt
MutBackoff(attempt) == 2 ^ (attempt + 1)
Backoff(attempt) == 2 ^ attempt

\* the image bytes worker `index` obtained from the upstream call
Bytes(index) == [png |-> index]

\* One iteration of `for attempt in range(max_retries)` given the response of
\* the upstream call: return the bytes, raise, or sleep and continue.
MutAttemptStep(attempt, resp, index) ==
    IF resp \in ImageResponses THEN [next |-> "return", value |-> Bytes(index), wait |-> 0]
    ELSE IF resp \in InvalidResponses
         THEN [next |-> "raise", value |-> ErrorMessage(resp, index), wait |-> 0]
    ELSE [next |-> "continue", value |-> None, wait |-> Backoff(attempt)]
AttemptStep(attempt, resp, index) ==
    IF resp \in ImageResponses THEN [next |-> "return", value |-> Bytes(index), wait |-> 0]
    ELSE IF resp \in InvalidResponses
         THEN [next |-> "raise", value |-> ErrorMessage(resp, index), wait |-> 0]
    ELSE IF RetryGuard(resp, attempt)
         THEN [next |-> "continue", value |-> None, wait |-> Backoff(attempt)]
    ELSE [next |-> "raise", value |-> ErrorMessage(resp, index), wait |-> 0]

\* The whole worker on a script of upstream responses (one per attempt).  A
\* for loop that runs out of attempts falls off the end of the function, which
\* returns None in Python.
RECURSIVE RunFrom(_, _, _)
RunFrom(attempt, script, index) ==
    IF attempt >= max_retries \/ attempt >= Len(script)
    THEN [next |-> "return", value |-> None, calls |-> attempt]
    ELSE LET s == AttemptStep(attempt, script[attempt + 1], index) IN
         IF s.next = "continue" THEN RunFrom(attempt + 1, script, index)
         ELSE [next |-> s.next, value |-> s.value, calls |-> attempt + 1]

generate_single_image(script, index) == RunFrom(0, script, index)

\* ---------------------------------------------------------------- variables
VARIABLES
    worker,           \* SpecWorker: the single worker
    req,              \* the request: inputs, position, submitted workers
    results,          \* client: image data per slot
    errors,           \* client: error per slot
    order,            \* slots in the order their workers completed
    generated_paths,  \* adapter: saved path per slot
    result,           \* the GenerationResult returned, None before
    disk,             \* output directory, image files, metadata.json
    sessions,         \* SessionStore._sessions: key -> ConversationContext
    tasks,            \* streaming: the worker of each slot
    ready,            \* streaming: completed workers not yet yielded
    retry_events,     \* streaming: notices collected by on_retry
    image_paths,      \* streaming: pipeline's path per slot
    image_errors,     \* streaming: pipeline's error per slot
    events,           \* streaming: events received by the consumer
    ops,              \* SpecSession: operations performed
    last,             \* SpecSession, SpecPrune: what the last operation did
    style_summary,    \* SpecSession: feedback_summary of each style.json
    was_reset,        \* SpecSession: keys whose context a reset has dropped
    conc,             \* SpecConc: threads of overlapping requests on one store
    rag               \* SpecRetrieve, SpecIndex: retriever and embedding index

workerVars == <<worker>>
syncVars == <<results, errors, order, generated_paths, result>>
streamVars == <<tasks, ready, retry_events, image_paths, image_errors, events>>
sessionVars == <<ops, last, style_summary, was_reset>>
auxVars == <<conc, rag>>
vars == <<worker, req, results, errors, order, generated_paths, result, disk, sessions,
          tasks, ready, retry_events, image_paths, image_errors, events, ops, last,
          style_summary, was_reset, conc, rag>>

\* values of the variables a specification does not use
EmptyStore == [k \in {} |-> None]
NoDisk == [dir |-> FALSE, files |-> [f \in {} |-> None], metadata |-> None]
IdleWorker == [pc |-> "unused"]
IdleReq == [pc |-> "unused"]
WorkerIdle == worker = IdleWorker
SyncIdle ==
    /\ results = << >> /\ errors = << >> /\ order = << >>
    /\ generated_paths = << >> /\ result = None
StreamIdle ==
    /\ tasks = << >> /\ ready = << >> /\ retry_events = << >>
    /\ image_paths = << >> /\ image_errors = << >> /\ events = << >>
NoSummaries == [st \in {} |-> None]
IdleConc == [pc |-> "unused"]
IdleRag == [pc |-> "unused"]
ConcIdle == conc = IdleConc
RagIdle == rag = IdleRag
SessionIdle == ops = 0 /\ last = None /\ style_summary = NoSummaries /\ was_reset = {}

\* ------------------------------------------------------------- SpecWorker
\* "sync" is the thread-pool worker of NanaBananaClient, "stream" the worker
\* behind generate_streaming_async, which is handed on_retry.  The generate
\* and the refine worker differ only in their messages and prompt contents.
WorkerKinds == {"sync", "stream"}
WorkerModes == {"generate", "refine"}

\* on_retry(index, attempt + 1, max_retries), called before the backoff sleep
OnRetryCall(kind, index, attempt) ==
    IF kind = "stream"
    THEN <<[index |-> index, attempt |-> attempt + 1, maxRetries |-> max_retries]>>
    ELSE << >>

WorkerInit ==
    /\ worker \in [kind : WorkerKinds, mode : WorkerModes, index : 0..MaxIndex,
                   attempt : {0}, calls : {0}, sleeps : {<< >>}, hook : {<< >>},
                   seen : {<< >>}, pc : {"run"}, value : {None}]
    /\ req = IdleReq /\ disk = NoDisk /\ sessions = EmptyStore
    /\ SyncIdle /\ StreamIdle /\ SessionIdle /\ ConcIdle /\ RagIdle

\* One pass through the body of the for loop: the upstream call and what the
\* worker does with its response.
WorkerAttempt ==
    /\ worker.pc = "run"
    /\ IF worker.attempt >= max_retries
       THEN worker' = [worker EXCEPT !.pc = "returned"]
       ELSE \E resp \in Responses :
              LET s == AttemptStep(worker.attempt, resp, worker.index)
                  w1 == [worker EXCEPT !.calls = @ + 1, !.seen = Append(@, resp)]
              IN worker' =
                   IF s.next = "return" THEN [w1 EXCEPT !.pc = "returned", !.value = s.value]
                   ELSE IF s.next = "raise" THEN [w1 EXCEPT !.pc = "raised", !.value = s.value]
                   ELSE [w1 EXCEPT !.attempt = @ + 1,
                                   !.sleeps = Append(@, s.wait),
                                   !.hook = @ \o OnRetryCall(worker.kind, worker.index, worker.attempt)]
    /\ UNCHANGED <<auxVars, req, disk, sessions, syncVars, streamVars, sessionVars>>

WorkerNext == WorkerAttempt

SpecWorker == WorkerInit /\ [][WorkerNext]_vars

C3_AllTransient(seen) == \A k \in 1..Len(seen) : seen[k] \in TransientErrors

\* C3: a worker whose upstream call fails with a transient error on every
\* attempt makes exactly 3 upstream attempts and then raises its terminal
\* error; it has slept twice, and the worker that is handed on_retry has
\* called it exactly twice, once before each retry.
C3_RetryBound ==
    /\ (worker.pc = "run" /\ C3_AllTransient(worker.seen)) => worker.calls < 3
    /\ (worker.pc # "run" /\ C3_AllTransient(worker.seen)) =>
          /\ worker.calls = 3
          /\ worker.pc = "raised"
          /\ worker.value # None
          /\ worker.value.image = worker.index + 1
          /\ Len(worker.sleeps) = 2
          /\ (worker.kind = "stream" =>
                /\ Len(worker.hook) = 2
                /\ \A k \in 1..2 : worker.hook[k].index = worker.index)

C3_Witness ==
    /\ worker.pc = "raised" /\ worker.kind = "stream"
    /\ Len(worker.seen) = 3 /\ C3_AllTransient(worker.seen)
    /\ Len(worker.hook) = 2

\* C4: only a transient failure is followed by another attempt; any other
\* failure ends the worker where it first occurs, so a worker whose first
\* response is a non-transient failure has made exactly one upstream call.
C4_RetryOnlyTransient ==
    /\ \A k \in 1..Len(worker.seen) :
          k < Len(worker.seen) => worker.seen[k] \in TransientErrors
    /\ (Len(worker.seen) > 0 /\ worker.seen[Len(worker.seen)] \notin TransientErrors) =>
          worker.pc \in {"returned", "raised"}
    /\ (Len(worker.seen) > 0 /\ worker.seen[1] \in InvalidResponses \cup OtherErrors) =>
          /\ worker.calls = 1
          /\ worker.pc = "raised"
          /\ worker.attempt = 0
          /\ worker.sleeps = << >>

C4_Witness ==
    /\ worker.pc = "raised" /\ worker.kind = "sync"
    /\ worker.seen = <<"no_candidates">> /\ worker.calls = 1


\* --------------------------------------------------------- SpecWorkerLive
\* The worker under fair scheduling: its thread is not suspended for ever,
\* and every upstream call and every sleep comes back.
SpecWorkerLive == SpecWorker /\ WF_vars(WorkerNext)

\* ---------------------------------------------------------- session store
Range(f) == {f[x] : x \in DOMAIN f}

\* SessionStore._key: f"{session_id}::{style_id}"; an id is a sequence of pieces
key_of(session_id, style_id) == session_id \o <<"::">> \o style_id

NewContext(session_id, style_id) ==
    [session_id |-> session_id, style_id |-> style_id, turns |-> << >>]

\* SessionStore.get_or_create: the store afterwards (the context is store[key])
get_or_create(store, session_id, style_id) ==
    IF key_of(session_id, style_id) \in DOMAIN store THEN store
    ELSE store @@ (key_of(session_id, style_id) :> NewContext(session_id, style_id))

\* SessionStore.reset: self._sessions.pop(key, None)
reset(store, session_id, style_id) ==
    [k \in DOMAIN store \ {key_of(session_id, style_id)} |-> store[k]]

turn_count(context) == Len(context.turns)
Mut_feedback_count(context) == Len(context.turns)
feedback_count(context) ==
    Cardinality({k \in 1..Len(context.turns) : context.turns[k].role = "feedback"})

\* turn_number=context.turn_count + 1
Mut_next_turn_number(context) == turn_count(context)
next_turn_number(context) == turn_count(context) + 1

\* an optional field that is None is "" (a string) or << >> (a list): the
\* code only tests these fields for truth
ConversationTurn(turn_number, role, user_input, style_id, refined_intent, negative_constraints, paths) ==
    [turn_number |-> turn_number, role |-> role, user_input |-> user_input,
     style_id |-> style_id, refined_intent |-> refined_intent,
     negative_constraints |-> negative_constraints, image_paths |-> paths]

\* context.add_turn(turn) on the context stored under key
add_turn(store, key, turn) ==
    [store EXCEPT ![key].turns = Append(@, turn)]

\* context.to_gpt_messages(): two messages for a generate turn, one for a
\* feedback turn, none for a turn of any other role; a content is the tuple
\* of the values its f-string formats
RECURSIVE to_gpt_messages(_)
to_gpt_messages(turns) ==
    IF turns = << >> THEN << >>
    ELSE LET turn == Head(turns)
             rest == to_gpt_messages(Tail(turns))
         IN IF turn.role = "generate"
            THEN << [role |-> "user",
                     content |-> <<"[Generation Request]", turn.user_input>>],
                    [role |-> "assistant",
                     content |-> <<"[Compiled Prompt]", turn.refined_intent,
                                   turn.negative_constraints,
                                   Len(turn.image_paths)>>] >> \o rest
            ELSE IF turn.role = "feedback"
            THEN << [role |-> "user",
                     content |-> <<"[Feedback]", turn.user_input>>] >> \o rest
            ELSE rest

\* the keyword arguments def to_gpt_messages(self) accepts, and the ones
\* the generate paths of the pipeline pass it
ToGptMessagesKeywords == {}
GenerateKeywords == {"exclude_roles"}

NoHistory == [called |-> FALSE, raised |-> FALSE, messages |-> << >>]

\* pipeline.generate step 2 (and the same lines of generate_async and
\* generate_streaming): history only of a context that has turns; a keyword
\* the method does not take is a TypeError of the call
conversation_history(context) ==
    IF turn_count(context) > 0
    THEN IF GenerateKeywords \subseteq ToGptMessagesKeywords
         THEN [called |-> TRUE, raised |-> FALSE,
               messages |-> to_gpt_messages(context.turns)]
         ELSE [called |-> TRUE, raised |-> TRUE, messages |-> << >>]
    ELSE NoHistory

\* refine: the refined_intent of the last generate turn that has one
RECURSIVE original_context_of(_)
original_context_of(turns) ==
    IF turns = << >> THEN ""
    ELSE LET t == turns[Len(turns)] IN
         IF t.role = "generate" /\ t.refined_intent # ""
         THEN t.refined_intent
         ELSE original_context_of(SubSeq(turns, 1, Len(turns) - 1))

\* refine: user inputs of the refine turns after the last generate turn
Mut_refine_history_of(turns) ==
    LET NotGenerate(t) == t.role # "generate"
        kept == SelectSeq(turns, NotGenerate)
    IN [k \in 1..Len(kept) |-> kept[k].user_input]
RECURSIVE refine_history_of(_)
refine_history_of(turns) ==
    IF turns = << >> THEN << >>
    ELSE LET t == turns[Len(turns)]
             rest == SubSeq(turns, 1, Len(turns) - 1) IN
         IF t.role = "refine" THEN Append(refine_history_of(rest), t.user_input)
         ELSE IF t.role = "generate" THEN << >>
         ELSE refine_history_of(rest)

\* ---------------------------------------------------------------- SpecGen
\* ids of the modelled request; an empty session id is "no session"
NoSession == << >>
SessionA == <<"a">>
StyleC == <<"c">>

\* the prompt compiler's output for the request (an external collaborator)
CompiledIntent == "compiled intent"
CompiledNegatives == <<"no text">>
UserInput == "user input"

GoodResolution == <<1024, 1024>>
BadResolution == <<0, 1024>>

\* a context that an earlier generate request left behind
PriorTurn ==
    ConversationTurn(1, "generate", "earlier input", StyleC, "earlier intent",
                     << >>, <<None, None, None>>)
PriorStore ==
    key_of(SessionA, StyleC) :>
        [session_id |-> SessionA, style_id |-> StyleC, turns |-> <<PriorTurn>>]

ReqImageCounts == {MinImages - 1} \cup (MinImages..MaxReqImages) \cup {MaxImages + 1}

SourceLists == UNION {[1..n -> {"readable", "unreadable"}] : n \in 0..MaxSources}

BaseReq ==
    [api |-> "generate", num_images |-> 0, resolution |-> GoodResolution,
     sources |-> << >>, session_id |-> NoSession, style_id |-> StyleC,
     pc |-> "start", spawned |-> {}, original_context |-> "",
     refine_history |-> << >>, transients |-> 0, sessions0 |-> EmptyStore,
     pruned |-> FALSE]

GenerateRequests ==
    {[BaseReq EXCEPT !.num_images = n, !.resolution = r] :
        n \in ReqImageCounts, r \in {GoodResolution, BadResolution}}

RefineRequests ==
    {[BaseReq EXCEPT !.api = "refine", !.sources = src, !.num_images = Len(src)] :
        src \in SourceLists}

\* the upstream behaviours a worker of a synchronous request can meet
GenScripts ==
    {<<"image">>, <<"no_candidates">>, <<"exc_503", "exc_503", "exc_503">>}

\* NanaBananaAdapter.validate_config
Mut_validate_config(num_images, resolution) ==
    /\ ~(num_images < MinImages)
    /\ ~(resolution[1] <= 0 \/ resolution[2] <= 0)
validate_config(num_images, resolution) ==
    /\ ~(num_images < MinImages \/ num_images > MaxImages)
    /\ ~(resolution[1] <= 0 \/ resolution[2] <= 0)

\* sketch_{i}.png in the request's output directory
PathOf(i) == [dir |-> "generated_outputs/timestamp", name |-> i]
basename(path) == path.name

\* errors[i] = f"Failed to load source image: {source_images[i]}"
MutLoadError(i) == None
LoadError(i) == [msg |-> "load_failed", image |-> i + 1]

Slots == 0..(req.num_images - 1)
Nones(n) == [k \in 1..n |-> None]

StreamRequests ==
    {[BaseReq EXCEPT !.api = "generate_streaming", !.num_images = n] :
        n \in {MinImages - 1, MinImages, MaxImages + 1}}
    \cup {[BaseReq EXCEPT !.api = "refine_streaming", !.sources = src,
                          !.num_images = Len(src)] :
             src \in {l \in SourceLists : Len(l) \in 1..MaxStreamSources}}
IsRefine == req.api \in {"refine", "refine_streaming"}
Streaming == req.api \in {"generate_streaming", "refine_streaming"}

\* req.sessions0 remembers the store the request started from
GenInit ==
    /\ \E r \in GenerateRequests \cup RefineRequests \cup StreamRequests,
          sid \in {NoSession, SessionA}, st \in {EmptyStore, PriorStore} :
          /\ (sid = NoSession => st = PriorStore)
          /\ req = [r EXCEPT !.session_id = sid, !.sessions0 = st]
          /\ sessions = st
    /\ disk = NoDisk
    /\ WorkerIdle /\ SyncIdle /\ StreamIdle /\ SessionIdle /\ ConcIdle /\ RagIdle

\* pipeline.generate steps 1-4 / pipeline.refine steps 1-2: the style is
\* resolved, the context loaded (created on first access), the prompt
\* compiled and the references retrieved
PipelineStart ==
    /\ req.pc = "start"
    /\ req.api \in {"generate", "refine"}
    /\ LET store == IF req.session_id # NoSession
                    THEN get_or_create(sessions, req.session_id, req.style_id)
                    ELSE sessions
           turns == IF req.session_id # NoSession
                    THEN store[key_of(req.session_id, req.style_id)].turns
                    ELSE << >>
       IN /\ sessions' = store
          /\ req' = IF req.api = "generate"
                    THEN IF req.session_id # NoSession
                            /\ conversation_history(
                                   store[key_of(req.session_id, req.style_id)]).raised
                         THEN [req EXCEPT !.pc = "history_error"]
                         ELSE [req EXCEPT !.pc = "compiled"]
                    ELSE [req EXCEPT !.pc = "ready",
                                     !.original_context = original_context_of(turns),
                                     !.refine_history = refine_history_of(turns)]
    /\ UNCHANGED <<auxVars, worker, disk, syncVars, streamVars, sessionVars>>

\* adapter.generate: self.validate_config(payload.config), a ValueError ends the request
ValidateConfig ==
    /\ req.pc = "compiled"
    /\ req.api = "generate"
    /\ req' = [req EXCEPT !.pc = IF validate_config(req.num_images, req.resolution)
                                 THEN "ready" ELSE "config_invalid"]
    /\ UNCHANGED <<auxVars, worker, disk, sessions, syncVars, streamVars, sessionVars>>

\* the slots client.generate / client.refine submit a worker for
MutSubmittedSlots == Slots
SubmittedSlots ==
    IF IsRefine
    THEN {i \in Slots : req.sources[i + 1] = "readable"}
    ELSE Slots

\* adapter._generate_images / adapter.refine up to the executor: the output
\* directory is created, then the client submits its workers and presets
\* the error of every source image it could not read
FanOut ==
    /\ req.pc = "ready"
    /\ req.api \in {"generate", "refine"}
    /\ disk' = [disk EXCEPT !.dir = TRUE]
    /\ req' = [req EXCEPT !.pc = "collecting", !.spawned = SubmittedSlots]
    /\ results' = Nones(req.num_images)
    /\ errors' = [k \in 1..req.num_images |->
                    IF (k - 1) \in SubmittedSlots THEN None ELSE LoadError(k - 1)]
    /\ order' = << >>
    /\ UNCHANGED <<auxVars, worker, generated_paths, result, sessions, streamVars, sessionVars>>

\* idx = futures[future]: the slot the collector files worker i's outcome under
MutCollectSlot(i, done) == Len(done)
CollectSlot(i, done) == i

\* worker i runs to its end and the as_completed loop records its outcome
WorkerDone(i) ==
    /\ req.pc = "collecting"
    /\ i \in req.spawned
    /\ i \notin Range(order)
    /\ \E script \in GenScripts :
          LET out == generate_single_image(script, i)
              idx == CollectSlot(i, order)
          IN /\ results' = IF out.next = "return"
                           THEN [results EXCEPT ![idx + 1] = out.value] ELSE results
             /\ errors' = IF out.next = "raise"
                          THEN [errors EXCEPT ![idx + 1] = out.value] ELSE errors
    /\ order' = Append(order, i)
    /\ UNCHANGED <<auxVars, worker, req, generated_paths, result, disk, sessions, streamVars, sessionVars>>

success_indices == {i \in Slots : results[i + 1] # None}

\* the save loop of the adapter: every image with data is processed and
\* written by its own pool thread; generated_paths[idx] = future.result()
\* re-raises the exception of a save that failed, which ends the request
\* (the other saves still finish, the pool is joined on the way out)
SaveImages ==
    /\ req.pc = "collecting"
    /\ Len(order) = Cardinality(req.spawned)
    /\ \E failing \in {-1} \cup success_indices :
          IF failing = -1
          THEN /\ generated_paths' = [k \in 1..req.num_images |->
                                        IF (k - 1) \in success_indices THEN PathOf(k - 1) ELSE None]
               /\ disk' = [disk EXCEPT !.files =
                             [i \in success_indices |-> results[i + 1]]]
               /\ req' = [req EXCEPT !.pc = "saved"]
          ELSE /\ generated_paths' = Nones(req.num_images)
               /\ disk' = [disk EXCEPT !.files =
                             [i \in success_indices \ {failing} |-> results[i + 1]]]
               /\ req' = [req EXCEPT !.pc = "aborted"]
    /\ UNCHANGED <<auxVars, worker, results, errors, order, result, sessions, streamVars, sessionVars>>

NotNone(x) == x # None

\* "images": [os.path.basename(p) for p in successful_paths]
MutMetadataImages(paths) == [k \in 1..Len(paths) |-> basename(PathOf(k - 1))]
MetadataImages(paths) ==
    LET successful_paths == SelectSeq(paths, NotNone)
    IN [k \in 1..Len(successful_paths) |-> basename(successful_paths[k])]

\* "image_errors": [e for e in image_errors if e is not None]
MetadataErrors(errs) == SelectSeq(errs, NotNone)

\* save_metadata under `if successful_paths:`
MetadataAfter(paths, errs) ==
    IF SelectSeq(paths, NotNone) # << >>
    THEN [images |-> MetadataImages(paths), image_errors |-> MetadataErrors(errs),
          style_id |-> req.style_id, num_images |-> req.num_images]
    ELSE disk.metadata

\* generator.generate / generator.refine after the adapter returned: the
\* GenerationResult is built and the metadata saved
BuildResult ==
    /\ req.pc = "saved"
    /\ result' = [images |-> generated_paths, image_errors |-> errors]
    /\ disk' = [disk EXCEPT !.metadata = MetadataAfter(generated_paths, errors)]
    /\ req' = [req EXCEPT !.pc = "generated"]
    /\ UNCHANGED <<auxVars, worker, results, errors, order, generated_paths, sessions, streamVars, sessionVars>>

\* image_paths=result.images
MutTurnImagePaths(images) == SelectSeq(images, NotNone)
TurnImagePaths(images) == images

\* the turn a finished request records
RequestTurn(context, images) ==
    IF IsRefine
    THEN ConversationTurn(next_turn_number(context), "refine", UserInput, req.style_id,
                          req.original_context, << >>, TurnImagePaths(images))
    ELSE ConversationTurn(next_turn_number(context), "generate", UserInput, req.style_id,
                          CompiledIntent, CompiledNegatives, TurnImagePaths(images))

\* the sessions after the turn-recording step of a request with `images`
SessionsAfterTurn(images) ==
    IF req.session_id = NoSession THEN sessions
    ELSE LET store == IF IsRefine
                      THEN get_or_create(sessions, req.session_id, req.style_id)
                      ELSE sessions
             key == key_of(req.session_id, req.style_id)
         IN add_turn(store, key, RequestTurn(store[key], images))

\* pipeline.generate step 6 / pipeline.refine step 4
RecordTurn ==
    /\ req.pc = "generated"
    /\ sessions' = SessionsAfterTurn(result.images)
    /\ req' = [req EXCEPT !.pc = "done"]
    /\ UNCHANGED <<auxVars, worker, disk, syncVars, streamVars, sessionVars>>

\* ------------------------------------------------------ streaming generate
\* the upstream behaviours a streaming worker can meet
StreamResponses == {"image", "no_candidates", "exc_503"}

MutProgressEvent(stage) == [event |-> "progress", stage |-> "prompt_compiled"]
ProgressEvent(stage) == [event |-> "progress", stage |-> stage]
RetryEvent(info) ==
    [event |-> "progress", stage |-> "retry", index |-> info.index,
     attempt |-> info.attempt, maxRetries |-> info.maxRetries]
ImageEvent(idx, path, error) ==
    [event |-> "image", index |-> idx, sketch |-> path, error |-> error]
CompleteEvent(total, success) ==
    [event |-> "complete", totalImages |-> total, successCount |-> success]
\* the route's `except Exception` around the stream
MutErrorEvent == [event |-> "progress", stage |-> "error"]
ErrorEvent == [event |-> "error"]

\* generate_streaming: style, context, history, compile, the first progress
\* event; an exception of the history call reaches the route, which turns
\* it into the error event
StreamCompile ==
    /\ req.pc = "start"
    /\ req.api = "generate_streaming"
    /\ \E failure \in {"none", "get_style", "compile"} :
        LET store == IF req.session_id # NoSession /\ failure # "get_style"
                     THEN get_or_create(sessions, req.session_id, req.style_id)
                     ELSE sessions
            raised == /\ req.session_id # NoSession /\ failure # "get_style"
                      /\ conversation_history(
                             store[key_of(req.session_id, req.style_id)]).raised
        IN /\ sessions' = store
           /\ events' = Append(events, IF raised \/ failure # "none" THEN ErrorEvent
                                       ELSE ProgressEvent("prompt_compiled"))
           /\ req' = [req EXCEPT !.pc = IF failure = "get_style" THEN "pipeline_error"
                                        ELSE IF raised THEN "history_error"
                                        ELSE IF failure = "compile" THEN "pipeline_error"
                                        ELSE "compiled"]
    /\ UNCHANGED <<auxVars, worker, disk, syncVars, tasks, ready, retry_events, image_paths,
                   image_errors, sessionVars>>

\* generate_streaming: retrieval, the second progress event, the slot lists
StreamRetrieve ==
    /\ req.pc = "compiled"
    /\ req.api = "generate_streaming"
    /\ \E failed \in BOOLEAN :
          IF failed
          THEN /\ events' = Append(events, ErrorEvent)
               /\ req' = [req EXCEPT !.pc = "pipeline_error"]
               /\ UNCHANGED <<image_paths, image_errors>>
          ELSE /\ events' = Append(events, ProgressEvent("rag_complete"))
               /\ image_paths' = Nones(req.num_images)
               /\ image_errors' = Nones(req.num_images)
               /\ req' = [req EXCEPT !.pc = "retrieved"]
    /\ UNCHANGED <<auxVars, worker, disk, sessions, syncVars, tasks, ready, retry_events, sessionVars>>

\* refine_streaming up to the loop: style, context, the anchor and the
\* refine history, the slot lists; it emits no progress event of its own,
\* and an unknown style ends it with the route's error event
RefineStreamStart ==
    /\ req.pc = "start"
    /\ req.api = "refine_streaming"
    /\ LET store == IF req.session_id # NoSession
                    THEN get_or_create(sessions, req.session_id, req.style_id)
                    ELSE sessions
           turns == IF req.session_id # NoSession
                    THEN store[key_of(req.session_id, req.style_id)].turns
                    ELSE << >>
       IN \E unknown_style \in BOOLEAN :
            IF unknown_style
            THEN /\ events' = Append(events, ErrorEvent)
                 /\ req' = [req EXCEPT !.pc = "pipeline_error"]
                 /\ UNCHANGED <<sessions, image_paths, image_errors>>
            ELSE /\ sessions' = store
                 /\ req' = [req EXCEPT !.pc = "retrieved",
                                       !.original_context = original_context_of(turns),
                                       !.refine_history = refine_history_of(turns)]
                 /\ image_paths' = Nones(req.num_images)
                 /\ image_errors' = Nones(req.num_images)
                 /\ UNCHANGED events
    /\ UNCHANGED <<auxVars, worker, disk, syncVars, tasks, ready, retry_events,
                   sessionVars>>

NewTask == [attempt |-> 0, state |-> "run", value |-> None]
\* the task of a source image that could not be read: its error is ready
\* without a call upstream
LoadFailedTask(i) == [attempt |-> 0, state |-> "raised", value |-> LoadError(i)]
\* the slots whose outcome is there as soon as the stream opens, in slot order
RECURSIVE PresetReady(_)
PresetReady(n) ==
    IF n = 0 THEN << >>
    ELSE IF (n - 1) \in SubmittedSlots THEN PresetReady(n - 1)
    ELSE Append(PresetReady(n - 1), n - 1)

\* first step of adapter.generate_streaming_async: validate_config, then the
\* output directory and one task per slot; a ValueError reaches the route,
\* which emits the error event
StreamOpen ==
    /\ req.pc = "retrieved"
    /\ IF IsRefine \/ validate_config(req.num_images, req.resolution)
       THEN /\ disk' = [disk EXCEPT !.dir = TRUE]
            /\ tasks' = [k \in 1..req.num_images |->
                            IF (k - 1) \in SubmittedSlots THEN NewTask
                            ELSE LoadFailedTask(k - 1)]
            /\ ready' = PresetReady(req.num_images)
            /\ req' = [req EXCEPT !.pc = "streaming", !.spawned = SubmittedSlots]
            /\ UNCHANGED events
       ELSE /\ events' = Append(events, ErrorEvent)
            /\ req' = [req EXCEPT !.pc = "config_invalid"]
            /\ UNCHANGED <<disk, tasks, ready>>
    /\ UNCHANGED <<auxVars, worker, sessions, syncVars, retry_events, image_paths,
                   image_errors, sessionVars>>

\* one attempt of the streaming worker of slot i; on_retry is the pipeline's
\* callback, which appends the notice to retry_events
TaskAttempt(i) ==
    /\ req.pc \in {"streaming", "disconnected"}
    /\ i \in req.spawned
    /\ tasks[i + 1].state = "run"
    /\ IF tasks[i + 1].attempt >= max_retries
       THEN /\ tasks' = [tasks EXCEPT ![i + 1].state = "returned"]
            /\ ready' = Append(ready, i)
            /\ UNCHANGED <<retry_events, req>>
       ELSE \E resp \in StreamResponses :
              /\ resp \in TransientErrors => req.transients < MaxTransient
              /\ LET s == AttemptStep(tasks[i + 1].attempt, resp, i) IN
                 IF s.next = "continue"
                 THEN /\ tasks' = [tasks EXCEPT ![i + 1].attempt = @ + 1]
                      /\ retry_events' = retry_events \o
                              OnRetryCall("stream", i, tasks[i + 1].attempt)
                      /\ req' = [req EXCEPT !.transients = @ + 1]
                      /\ UNCHANGED ready
                 ELSE /\ tasks' = [tasks EXCEPT ![i + 1].state =
                                        IF s.next = "return" THEN "returned" ELSE "raised",
                                     ![i + 1].value = s.value]
                      /\ ready' = Append(ready, i)
                      /\ UNCHANGED <<retry_events, req>>
    /\ UNCHANGED <<auxVars, worker, disk, sessions, syncVars, image_paths, image_errors, events,
                   sessionVars>>

\* the route's event_generator is still iterating the pipeline's generator
MutConsuming == req.pc \in {"streaming", "disconnected"}
Consuming == req.pc = "streaming"

\* the consumer goes away: the server cancels the response and the pipeline's
\* generator is left where it was suspended (CancelledError is not an
\* Exception, so the route emits no error event); workers already
\* dispatched go on
Disconnect ==
    /\ Streaming
    /\ req.pc \in {"compiled", "retrieved", "streaming"}
    /\ req' = [req EXCEPT !.pc = "disconnected"]
    /\ UNCHANGED <<auxVars, worker, disk, sessions, syncVars, streamVars, sessionVars>>

\* the next completed worker is yielded: the adapter saves its image (a save
\* that raises ends the stream with the route's error event), the pipeline
\* drains retry_events, fills the slot and emits the image event
Deliver ==
    /\ Consuming
    /\ ready # << >>
    /\ LET idx == Head(ready)
           t == tasks[idx + 1]
           has_bytes == t.state = "returned" /\ t.value # None
           drained == [k \in 1..Len(retry_events) |-> RetryEvent(retry_events[k])]
       IN \E save_ok \in BOOLEAN :
            /\ ~has_bytes => save_ok
            /\ ready' = Tail(ready)
            /\ IF save_ok
               THEN LET path == IF has_bytes THEN PathOf(idx) ELSE None
                        error == IF t.state = "raised" THEN t.value ELSE None
                    IN /\ disk' = IF has_bytes
                                  THEN [disk EXCEPT !.files = @ @@ (idx :> t.value)]
                                  ELSE disk
                       /\ image_paths' = [image_paths EXCEPT ![idx + 1] = path]
                       /\ image_errors' = [image_errors EXCEPT ![idx + 1] = error]
                       /\ events' = (events \o drained) \o <<ImageEvent(idx, path, error)>>
                       /\ retry_events' = << >>
                       /\ order' = Append(order, idx)
                       /\ UNCHANGED req
               ELSE /\ events' = Append(events, ErrorEvent)
                    /\ req' = [req EXCEPT !.pc = "aborted"]
                    /\ UNCHANGED <<disk, image_paths, image_errors, retry_events, order>>
    /\ UNCHANGED <<auxVars, worker, sessions, results, errors, generated_paths, result, tasks,
                   sessionVars>>

\* generate_streaming after the loop: metadata, the turn, the complete event
StreamFinish ==
    /\ Consuming
    /\ Len(order) = req.num_images
    /\ disk' = [disk EXCEPT !.metadata = MetadataAfter(image_paths, image_errors)]
    /\ sessions' = SessionsAfterTurn(image_paths)
    /\ events' = Append(events, CompleteEvent(req.num_images,
                                              Len(SelectSeq(image_paths, NotNone))))
    /\ req' = [req EXCEPT !.pc = "done"]
    /\ UNCHANGED <<auxVars, worker, syncVars, tasks, ready, retry_events, image_paths, image_errors,
                   sessionVars>>

\* event_generator after its loop: _prune_generations(request.styleId)
RoutePrune ==
    /\ Streaming
    /\ req.pc = "done" /\ ~req.pruned
    /\ req' = [req EXCEPT !.pruned = TRUE]
    /\ UNCHANGED <<auxVars, worker, disk, sessions, syncVars, streamVars, sessionVars>>

GenNext ==
    \/ PipelineStart
    \/ ValidateConfig
    \/ FanOut
    \/ \E i \in 0..MaxImages : WorkerDone(i)
    \/ SaveImages
    \/ BuildResult
    \/ RecordTurn
    \/ StreamCompile
    \/ StreamRetrieve
    \/ RefineStreamStart
    \/ StreamOpen
    \/ \E i \in 0..MaxImages : TaskAttempt(i)
    \/ Deliver
    \/ StreamFinish
    \/ RoutePrune
    \/ Disconnect

SpecGen == GenInit /\ [][GenNext]_vars

\* ------------------------------------------------------------ SpecSession
\* Whole requests, one after the other, against one session store.  The ids
\* include ones that contain the separator of the store key.
SessionIds == {<<"a">>, <<"a", "::", "b">>}
StyleIds == {<<"c">>, <<"b", "::", "c">>}

FeedbackText == "feedback text"
FeedbackTurn(n, style_id) ==
    ConversationTurn(n, "feedback", FeedbackText, style_id, "", << >>, << >>)

\* a context that FeedbackThreshold - 2 feedback requests left behind
FeedbackStore ==
    key_of(SessionA, StyleC) :>
        [session_id |-> SessionA, style_id |-> StyleC,
         turns |-> [k \in 1..(FeedbackThreshold - 2) |-> FeedbackTurn(k, StyleC)]]

SessionInit ==
    /\ sessions \in {EmptyStore, FeedbackStore}
    /\ ops = 0 /\ last = None /\ was_reset = {}
    /\ style_summary = [st \in StyleIds |-> << >>]
    /\ req = IdleReq /\ disk = NoDisk
    /\ WorkerIdle /\ SyncIdle /\ StreamIdle /\ ConcIdle /\ RagIdle

\* the request record of a SpecFeedback run, and the number of operations a
\* run may perform
LongRun == [pc |-> "long_run"]
AnchorRun == [pc |-> "anchor_run"]
OpsLimit ==
    IF req = LongRun THEN MaxLongOps
    ELSE IF req = AnchorRun THEN MaxAnchorOps
    ELSE MaxOps

\* what the compiler returns as refined_intent (result.get("refined_intent",
\* user_text): the string of the completion, which may be empty), and the
\* prompts of refine requests; the runs of SpecAnchor vary them
OtherInput == "other input"
CompilerIntents == IF req = AnchorRun THEN {CompiledIntent, ""} ELSE {CompiledIntent}
RefinePrompts == IF req = AnchorRun THEN {UserInput, OtherInput} ELSE {UserInput}

\* the image list a request of SpecSession comes back with
SomeImages == <<PathOf(0), None, PathOf(2)>>

\* pipeline.generate as one step: the context is loaded first and the turn
\* appended last; a request that raises in between leaves the context it
\* created but records nothing
SessGenerate(session_id, style_id) ==
    /\ ops < OpsLimit
    /\ LET key == key_of(session_id, style_id)
           store == get_or_create(sessions, session_id, style_id)
           history == conversation_history(store[key])
       IN \E raised \in (IF history.raised THEN {TRUE} ELSE BOOLEAN),
             intent \in CompilerIntents :
            LET turn == ConversationTurn(next_turn_number(store[key]), "generate",
                                         UserInput, style_id, intent,
                                         CompiledNegatives, SomeImages)
            IN
            /\ sessions' = IF raised THEN store ELSE add_turn(store, key, turn)
            /\ last' = [op |-> "generate", error |-> raised,
                        turn_number |-> IF raised THEN 0 ELSE turn.turn_number,
                        history |-> history, turns_before |-> store[key].turns]
    /\ ops' = ops + 1
    /\ UNCHANGED <<auxVars, worker, req, disk, syncVars, streamVars, style_summary, was_reset>>

\* pipeline.refine as one step
SessRefine(session_id, style_id) ==
    /\ ops < OpsLimit
    /\ LET key == key_of(session_id, style_id)
           store == get_or_create(sessions, session_id, style_id)
       IN \E raised \in BOOLEAN, refine_prompt \in RefinePrompts :
            LET turn == ConversationTurn(next_turn_number(store[key]), "refine",
                                         refine_prompt, style_id,
                                         original_context_of(store[key].turns),
                                         << >>, SomeImages)
            IN
            /\ sessions' = IF raised THEN store ELSE add_turn(store, key, turn)
            /\ last' = [op |-> "refine", error |-> raised,
                        turn_number |-> IF raised THEN 0 ELSE turn.turn_number,
                        original_context |-> original_context_of(store[key].turns),
                        refine_history |-> refine_history_of(store[key].turns),
                        turns_before |-> store[key].turns]
    /\ ops' = ops + 1
    /\ UNCHANGED <<auxVars, worker, req, disk, syncVars, streamVars, style_summary, was_reset>>

Mut_get_feedback_texts(context) ==
    [k \in 1..Len(context.turns) |-> context.turns[k].user_input]
get_feedback_texts(context) ==
    LET IsFeedback(t) == t.role = "feedback"
        fb == SelectSeq(context.turns, IsFeedback)
    IN [k \in 1..Len(fb) |-> fb[k].user_input]

\* summarize_feedback on `store`; gpt_ok: the completion call and the write
\* of style.json both succeed.  Gives the store, the summaries, what is
\* returned and whether it raised.
Mut_summarize_feedback(store0, summaries, session_id, style_id, gpt_ok) ==
    LET key == key_of(session_id, style_id)
        store == get_or_create(store0, session_id, style_id)
        feedback_texts == get_feedback_texts(store[key])
    IN IF feedback_texts = << >>
       THEN [store |-> store, summaries |-> summaries, summary |-> None,
             raised |-> FALSE, did_reset |-> FALSE]
       ELSE IF ~gpt_ok
       THEN [store |-> reset(store, session_id, style_id), summaries |-> summaries,
             summary |-> None, raised |-> TRUE, did_reset |-> TRUE]
       ELSE [store |-> reset(store, session_id, style_id),
             summaries |-> [summaries EXCEPT ![style_id] = feedback_texts],
             summary |-> feedback_texts, raised |-> FALSE, did_reset |-> TRUE]
summarize_feedback(store0, summaries, session_id, style_id, gpt_ok) ==
    LET key == key_of(session_id, style_id)
        store == get_or_create(store0, session_id, style_id)
        feedback_texts == get_feedback_texts(store[key])
    IN IF feedback_texts = << >>
       THEN [store |-> store, summaries |-> summaries, summary |-> None,
             raised |-> FALSE, did_reset |-> FALSE]
       ELSE IF ~gpt_ok
       THEN [store |-> store, summaries |-> summaries, summary |-> None,
             raised |-> TRUE, did_reset |-> FALSE]
       ELSE [store |-> reset(store, session_id, style_id),
             summaries |-> [summaries EXCEPT ![style_id] = feedback_texts],
             summary |-> feedback_texts, raised |-> FALSE, did_reset |-> TRUE]

\* if context.feedback_count >= 10
Mut_threshold_reached(context) == feedback_count(context) > FeedbackThreshold
threshold_reached(context) == feedback_count(context) >= FeedbackThreshold

\* pipeline.add_feedback.  `last` is what the call returned, with the ids it
\* was called with and what it saw: the feedback count after its append and
\* whether it called summarize_feedback.
AddFeedback(session_id, style_id) ==
    /\ ops < OpsLimit
    /\ LET key == key_of(session_id, style_id)
           store == get_or_create(sessions, session_id, style_id)
           turn == FeedbackTurn(next_turn_number(store[key]), style_id)
           appended == add_turn(store, key, turn)
       IN IF threshold_reached(appended[key])
          THEN \E gpt_ok \in BOOLEAN :
                 LET r == summarize_feedback(appended, style_summary, session_id,
                                             style_id, gpt_ok)
                 IN /\ sessions' = r.store
                    /\ style_summary' = r.summaries
                    /\ was_reset' = IF r.did_reset THEN was_reset \cup {key} ELSE was_reset
                    /\ last' = [op |-> "add_feedback", error |-> r.raised,
                                turn_number |-> turn.turn_number,
                                summarized |-> ~r.raised, triggered |-> TRUE,
                                session_id |-> session_id, style_id |-> style_id,
                                feedback_count |-> feedback_count(appended[key])]
          ELSE /\ sessions' = appended
               /\ last' = [op |-> "add_feedback", error |-> FALSE,
                           turn_number |-> turn.turn_number, summarized |-> FALSE,
                           triggered |-> FALSE,
                           session_id |-> session_id, style_id |-> style_id,
                           feedback_count |-> feedback_count(appended[key])]
               /\ UNCHANGED <<style_summary, was_reset>>
    /\ ops' = ops + 1
    /\ UNCHANGED <<auxVars, worker, req, disk, syncVars, streamVars>>

\* POST /feedback/summarize: pipeline.summarize_feedback on its own
Summarize(session_id, style_id) ==
    /\ ops < OpsLimit
    /\ \E gpt_ok \in BOOLEAN :
          LET r == summarize_feedback(sessions, style_summary, session_id, style_id, gpt_ok)
          IN /\ sessions' = r.store
             /\ style_summary' = r.summaries
             /\ was_reset' = IF r.did_reset
                             THEN was_reset \cup {key_of(session_id, style_id)}
                             ELSE was_reset
             /\ last' = [op |-> "summarize", error |-> r.raised, summary |-> r.summary,
                         session_id |-> session_id, style_id |-> style_id]
    /\ ops' = ops + 1
    /\ UNCHANGED <<auxVars, worker, req, disk, syncVars, streamVars>>

\* SessionStore.reset called directly
Reset(session_id, style_id) ==
    /\ ops < OpsLimit
    /\ sessions' = reset(sessions, session_id, style_id)
    /\ was_reset' = IF key_of(session_id, style_id) \in DOMAIN sessions
                    THEN was_reset \cup {key_of(session_id, style_id)}
                    ELSE was_reset
    /\ last' = [op |-> "reset", error |-> FALSE]
    /\ ops' = ops + 1
    /\ UNCHANGED <<auxVars, worker, req, disk, syncVars, streamVars, style_summary>>

SessionNext ==
    \E session_id \in SessionIds, style_id \in StyleIds :
        \/ SessGenerate(session_id, style_id)
        \/ SessRefine(session_id, style_id)
        \/ AddFeedback(session_id, style_id)
        \/ Summarize(session_id, style_id)
        \/ Reset(session_id, style_id)

SpecSession == SessionInit /\ [][SessionNext]_vars

\* --------------------------------------------------------------- SpecConc
\* Requests that overlap in time, each in its own thread of the server's
\* thread pool, against the context of one (session_id, style_id).  Contexts
\* are objects: conc.heap holds them, conc.store is the object the store has
\* under the key (0: none), and a thread keeps the object that get_or_create
\* returned to it.  A step is what a thread does between two points at which
\* the interpreter may switch threads; nothing in the code holds a lock.
Threads == 1..NumThreads
ConcOps == {"add_feedback", "refine"}
ThreadInput(t) == "input " \o ToString(t)
PriorContext == [session_id |-> SessionA, style_id |-> StyleC, turns |-> <<PriorTurn>>]

ConcInit ==
    /\ \E ops0 \in [Threads -> ConcOps], prior \in BOOLEAN :
          conc = [pc |-> "running",
                  heap |-> IF prior THEN <<PriorContext>> ELSE << >>,
                  store |-> IF prior THEN 1 ELSE 0,
                  threads |-> [t \in Threads |->
                                 [op |-> ops0[t], pc |-> "check", ctx |-> 0, n |-> 0,
                                  phase |-> IF ops0[t] = "refine" THEN 1 ELSE 2]]]
    /\ sessions = EmptyStore /\ req = IdleReq /\ disk = NoDisk
    /\ WorkerIdle /\ SyncIdle /\ StreamIdle /\ SessionIdle /\ RagIdle

\* get_or_create: if key not in self._sessions
ConcCheck(t) ==
    /\ conc.pc = "running" /\ conc.threads[t].pc = "check"
    /\ conc' = [conc EXCEPT !.threads[t].pc = IF conc.store = 0 THEN "create" ELSE "fetch"]
    /\ UNCHANGED <<rag, worker, req, disk, sessions, syncVars, streamVars, sessionVars>>

\* get_or_create: self._sessions[key] = ConversationContext(...)
ConcCreate(t) ==
    /\ conc.pc = "running" /\ conc.threads[t].pc = "create"
    /\ conc' = [conc EXCEPT !.heap = Append(@, NewContext(SessionA, StyleC)),
                            !.store = Len(conc.heap) + 1,
                            !.threads[t].pc = "fetch"]
    /\ UNCHANGED <<rag, worker, req, disk, sessions, syncVars, streamVars, sessionVars>>

\* get_or_create: return self._sessions[key].  refine calls it once to scan
\* the turns (phase 1), generates, and calls it again to record its turn.
ConcFetch(t) ==
    /\ conc.pc = "running" /\ conc.threads[t].pc = "fetch"
    /\ conc' = IF conc.threads[t].phase = 1
               THEN [conc EXCEPT !.threads[t].phase = 2, !.threads[t].pc = "check"]
               ELSE [conc EXCEPT !.threads[t].ctx = conc.store, !.threads[t].pc = "count"]
    /\ UNCHANGED <<rag, worker, req, disk, sessions, syncVars, streamVars, sessionVars>>

\* turn = ConversationTurn(turn_number=context.turn_count + 1, ...)
ConcCount(t) ==
    /\ conc.pc = "running" /\ conc.threads[t].pc = "count"
    /\ conc' = [conc EXCEPT !.threads[t].n = next_turn_number(conc.heap[conc.threads[t].ctx]),
                            !.threads[t].pc = "append"]
    /\ UNCHANGED <<rag, worker, req, disk, sessions, syncVars, streamVars, sessionVars>>

ConcTurn(t) ==
    ConversationTurn(conc.threads[t].n,
                     IF conc.threads[t].op = "refine" THEN "refine" ELSE "feedback",
                     ThreadInput(t), StyleC, "", << >>, << >>)

\* context.add_turn(turn)
ConcAppend(t) ==
    /\ conc.pc = "running" /\ conc.threads[t].pc = "append"
    /\ conc' = [conc EXCEPT !.heap[conc.threads[t].ctx].turns = Append(@, ConcTurn(t)),
                            !.threads[t].pc = "done"]
    /\ UNCHANGED <<rag, worker, req, disk, sessions, syncVars, streamVars, sessionVars>>

ConcNext ==
    \E t \in Threads :
        \/ ConcCheck(t)
        \/ ConcCreate(t)
        \/ ConcFetch(t)
        \/ ConcCount(t)
        \/ ConcAppend(t)

SpecConc == ConcInit /\ [][ConcNext]_vars

\* ----------------------------------------------------------- SpecRetrieve
\* One call of ImageRetriever.retrieve or retrieve_by_text on the embeddings
\* of one style.  Embedding vectors are integer vectors whose norms are
\* integers, so that the cosine is exact; a score is the cosine times 100.
Vectors == {<<1, 0>>, <<0, 1>>, <<-1, 0>>, <<3, 4>>, <<0, 0>>}
MinSimilarities == {0, 50}

RECURSIVE Dot(_, _)
Dot(vec1, vec2) ==
    IF vec1 = << >> THEN 0 ELSE Head(vec1) * Head(vec2) + Dot(Tail(vec1), Tail(vec2))
\* math.sqrt on the sums of squares that occur
Sqrt(n) == CHOOSE r \in 0..n : r * r = n

\* rag.utils.cosine_similarity
cosine_similarity(vec1, vec2) ==
    IF vec1 = << >> \/ vec2 = << >> \/ Len(vec1) # Len(vec2) THEN 0
    ELSE IF Sqrt(Dot(vec1, vec1)) = 0 \/ Sqrt(Dot(vec2, vec2)) = 0 THEN 0
    ELSE (100 * Dot(vec1, vec2)) \div (Sqrt(Dot(vec1, vec1)) * Sqrt(Dot(vec2, vec2)))

\* ImageEmbedding(image_path, embedding, style_id)
ImageEmbedding(image_path, embedding) ==
    [image_path |-> image_path, embedding |-> embedding, style_id |-> StyleC]

\* scores zipped with embeddings
Scored(embeddings) ==
    [i \in 1..Len(embeddings) |->
        [score |-> cosine_similarity(embeddings[1].embedding, embeddings[i].embedding),
         emb |-> embeddings[i]]]

\* sorted(..., key=lambda x: x[0], reverse=True): descending and stable
InsertDesc(sorted, p) ==
    LET n == Cardinality({i \in 1..Len(sorted) : sorted[i].score >= p.score})
    IN SubSeq(sorted, 1, n) \o <<p>> \o SubSeq(sorted, n + 1, Len(sorted))
MutRanked(pairs) == pairs
RECURSIVE Ranked(_)
Ranked(pairs) ==
    IF pairs = << >> THEN << >>
    ELSE InsertDesc(Ranked(SubSeq(pairs, 1, Len(pairs) - 1)), pairs[Len(pairs)])

\* k = top_k or self.config.top_k
EffectiveK(top_k) == IF top_k = 0 THEN ConfigTopK ELSE top_k
Truncate(seq, k) == SubSeq(seq, 1, IF k < Len(seq) THEN k ELSE Len(seq))

\* ReferenceImage(...) for each result, and the scores beside them
RetrievalResult(top_results) ==
    [images |-> [i \in 1..Len(top_results) |->
                    [path |-> top_results[i].emb.image_path,
                     style_id |-> top_results[i].emb.style_id,
                     embedding |-> top_results[i].emb.embedding]],
     scores |-> [i \in 1..Len(top_results) |-> top_results[i].score]]

\* ImageRetriever.retrieve
retrieve(embeddings, do_not_use, top_k, min_similarity, include_negative) ==
    IF embeddings = << >> THEN RetrievalResult(<< >>)
    ELSE LET ranked == Ranked(Scored(embeddings))
             AboveMin(p) == p.score >= min_similarity
             filtered == SelectSeq(ranked, AboveMin)
             top_results == Truncate(filtered, EffectiveK(top_k))
             Allowed(p) == p.emb.image_path \notin do_not_use
         IN RetrievalResult(IF ~include_negative
                            THEN SelectSeq(top_results, Allowed) ELSE top_results)

\* ImageRetriever.retrieve_by_text
retrieve_by_text(embeddings, top_k) ==
    IF embeddings = << >> THEN RetrievalResult(<< >>)
    ELSE RetrievalResult(Truncate(Ranked(Scored(embeddings)), EffectiveK(top_k)))

\* the embeddings get_embeddings returns: one per reference image of the style
EmbeddingSets ==
    UNION {{[i \in 1..n |-> ImageEmbedding(i, vs[i])] : vs \in [1..n -> Vectors]} :
              n \in 0..MaxEmbeddings}

RetrieveInit ==
    /\ \E embeddings \in EmbeddingSets, top_k \in 0..MaxTopK,
          min_similarity \in MinSimilarities, include_negative \in BOOLEAN :
          \E do_not_use \in SUBSET (1..Len(embeddings)) :
             rag = [pc |-> "query", embeddings |-> embeddings, do_not_use |-> do_not_use,
                    top_k |-> top_k, min_similarity |-> min_similarity,
                    include_negative |-> include_negative, entry |-> "", result |-> None]
    /\ sessions = EmptyStore /\ req = IdleReq /\ disk = NoDisk
    /\ WorkerIdle /\ SyncIdle /\ StreamIdle /\ SessionIdle /\ ConcIdle

Retrieve ==
    /\ rag.pc = "query"
    /\ rag' = [rag EXCEPT !.pc = "returned", !.entry = "retrieve",
                          !.result = retrieve(rag.embeddings, rag.do_not_use, rag.top_k,
                                              rag.min_similarity, rag.include_negative)]
    /\ UNCHANGED <<conc, worker, req, disk, sessions, syncVars, streamVars, sessionVars>>

RetrieveByText ==
    /\ rag.pc = "query"
    /\ rag' = [rag EXCEPT !.pc = "returned", !.entry = "retrieve_by_text",
                          !.result = retrieve_by_text(rag.embeddings, rag.top_k)]
    /\ UNCHANGED <<conc, worker, req, disk, sessions, syncVars, streamVars, sessionVars>>

RetrieveNext == Retrieve \/ RetrieveByText

SpecRetrieve == RetrieveInit /\ [][RetrieveNext]_vars

\* -------------------------------------------------------------- SpecIndex
\* The embedding index of one style: its cache file, the set a
\* StyleImageIndex object keeps in _embeddings, readers calling
\* get_embeddings and a build_index that runs beside them, in the server
\* ("pipeline", after add_images_to_style) or in the init_embeddings process
\* ("cli"), which may have loaded another embedding model.
Dims == {512, 768}
NoFile == None
\* a file opened for writing and not yet closed: truncated or half written
PartialFile == [state |-> "partial"]
CacheFile(embedding_dim, embeddings) ==
    [state |-> "complete", embedding_dim |-> embedding_dim, embeddings |-> embeddings]
\* the vector embed_image gives for image i with a model of dimension dim
Embedded(i, dim, version) == [image_path |-> i, dim |-> dim, version |-> version]
OldSet(dim) == <<Embedded(1, dim, 0)>>
\* StyleImageIndex._embeddings: None, or the list loaded from the cache
NoMemo == [loaded |-> FALSE]
Loaded(embeddings) == [loaded |-> TRUE, embeddings |-> embeddings]

\* StyleImageIndex._parse_cache_file
Mut_parse_cache_file(file, embedder_dim) ==
    IF file.state = "partial" THEN [outcome |-> "json_error", value |-> << >>]
    ELSE [outcome |-> "ok", value |-> file.embeddings]
parse_cache_file(file, embedder_dim) ==
    IF file.state = "partial" THEN [outcome |-> "json_error", value |-> << >>]
    ELSE IF file.embedding_dim # embedder_dim THEN [outcome |-> "stale", value |-> << >>]
    ELSE [outcome |-> "ok", value |-> file.embeddings]

\* StyleImageIndex._load_from_cache: what it raises or returns, the embedder
\* calls it makes and the cache file it leaves
Mut_load_from_cache(file, embedder_dim) ==
    IF file = NoFile
    THEN [outcome |-> "ok", value |-> <<Embedded(1, embedder_dim, 9)>>, embed_calls |-> 1,
          file |-> CacheFile(embedder_dim, <<Embedded(1, embedder_dim, 9)>>)]
    ELSE [outcome |-> parse_cache_file(file, embedder_dim).outcome,
          value |-> parse_cache_file(file, embedder_dim).value,
          embed_calls |-> 0, file |-> file]
load_from_cache(file, embedder_dim) ==
    IF file = NoFile
    THEN [outcome |-> "not_built", value |-> << >>, embed_calls |-> 0, file |-> file]
    ELSE LET r == parse_cache_file(file, embedder_dim)
         IN [outcome |-> IF r.outcome = "json_error" THEN "corrupted" ELSE r.outcome,
             value |-> r.value, embed_calls |-> 0, file |-> file]

IdleBuilder == [pc |-> "idle", kind |-> "", dim |-> 0, embedded |-> << >>]

IndexInit ==
    /\ \E file \in {NoFile} \cup {CacheFile(d, OldSet(d)) : d \in Dims},
          embedder_dim \in Dims, images \in 0..MaxRefImages :
          rag = [pc |-> "index", file |-> file, embedder_dim |-> embedder_dim,
                 memo |-> NoMemo, images |-> images, builder |-> IdleBuilder,
                 builds |-> 0, reads |-> 0, embed_calls |-> 0, last_read |-> None]
    /\ sessions = EmptyStore /\ req = IdleReq /\ disk = NoDisk
    /\ WorkerIdle /\ SyncIdle /\ StreamIdle /\ SessionIdle /\ ConcIdle

\* StyleImageIndex.get_embeddings; last_read is what the call met and gave
GetEmbeddings ==
    /\ rag.pc = "index" /\ rag.reads < MaxReads
    /\ LET r == IF rag.memo # NoMemo
                THEN [outcome |-> "ok", value |-> rag.memo.embeddings, embed_calls |-> 0,
                      file |-> rag.file]
                ELSE load_from_cache(rag.file, rag.embedder_dim)
       IN rag' = [rag EXCEPT !.reads = @ + 1,
                             !.memo = IF r.outcome = "ok" THEN Loaded(r.value) ELSE rag.memo,
                             !.file = r.file,
                             !.embed_calls = @ + r.embed_calls,
                             !.last_read = [file_before |-> rag.file,
                                            memo_before |-> rag.memo,
                                            building |-> rag.builder.pc # "idle",
                                            outcome |-> r.outcome, value |-> r.value,
                                            embed_calls |-> r.embed_calls,
                                            file_after |-> r.file]]
    /\ UNCHANGED <<conc, worker, req, disk, sessions, syncVars, streamVars, sessionVars>>

\* build_index up to its loop.  The pipeline drops the registry's index
\* object first (and builds only when the style has images); a style with no
\* reference images makes build_index return [] without writing.
BuildStart(kind, dim) ==
    /\ rag.pc = "index" /\ rag.builder.pc = "idle" /\ rag.builds < MaxBuilds
    /\ kind = "pipeline" => (dim = rag.embedder_dim /\ rag.images > 0)
    /\ rag' = [rag EXCEPT !.builds = @ + 1,
                          !.memo = IF kind = "pipeline" THEN NoMemo ELSE @,
                          !.builder = IF rag.images = 0 THEN IdleBuilder
                                      ELSE [pc |-> "embedding", kind |-> kind, dim |-> dim,
                                            embedded |-> << >>]]
    /\ UNCHANGED <<conc, worker, req, disk, sessions, syncVars, streamVars, sessionVars>>

\* one pass of the loop: embed_image and append
BuildEmbed ==
    /\ rag.pc = "index" /\ rag.builder.pc = "embedding"
    /\ LET embedded == Append(rag.builder.embedded,
                              Embedded(Len(rag.builder.embedded) + 1, rag.builder.dim,
                                       rag.builds))
       IN rag' = [rag EXCEPT !.embed_calls = @ + 1,
                             !.builder.embedded = embedded,
                             !.builder.pc = IF Len(embedded) = rag.images
                                            THEN "save" ELSE "embedding"]
    /\ UNCHANGED <<conc, worker, req, disk, sessions, syncVars, streamVars, sessionVars>>

\* _save_to_cache: open(cache_path, 'w') truncates the cache file in place
BuildOpen ==
    /\ rag.pc = "index" /\ rag.builder.pc = "save"
    /\ rag' = [rag EXCEPT !.file = PartialFile, !.builder.pc = "writing"]
    /\ UNCHANGED <<conc, worker, req, disk, sessions, syncVars, streamVars, sessionVars>>

\* _save_to_cache: json.dump has written everything and the file is closed
BuildClose ==
    /\ rag.pc = "index" /\ rag.builder.pc = "writing"
    /\ rag' = [rag EXCEPT !.file = CacheFile(rag.builder.dim, rag.builder.embedded),
                          !.builder = IdleBuilder]
    /\ UNCHANGED <<conc, worker, req, disk, sessions, syncVars, streamVars, sessionVars>>

IndexNext ==
    \/ GetEmbeddings
    \/ \E kind \in {"pipeline", "cli"}, dim \in Dims : BuildStart(kind, dim)
    \/ BuildEmbed
    \/ BuildOpen
    \/ BuildClose

SpecIndex == IndexInit /\ [][IndexNext]_vars

\* ------------------------------------------------------------ SpecStyle
\* One style whose image set changes (add_images_to_style,
\* delete_images_from_style) while retrievals call get_embeddings on the
\* registry's index object of that style.  rag.memo is the _embeddings of
\* the object in IndexRegistry._indices (an absent object and a fresh one read
\* alike), rag.images is reference_images of style.json.
StyleDim == 768
EmbeddingsOf(images) == [i \in 1..Len(images) |-> Embedded(images[i], StyleDim, 0)]
Keep(images, names) == SelectSeq(images, LAMBDA img : img \notin names)
IdleChange == [pc |-> "idle", kind |-> "", before |-> << >>, embedded |-> << >>]

StyleInit ==
    /\ \E k \in 0..MaxRefImages, built \in BOOLEAN :
          /\ k = 0 => ~built
          /\ LET images == [i \in 1..k |-> i]
             IN rag = [pc |-> "style", images |-> images, next_image |-> k + 1,
                       file |-> IF built THEN CacheFile(StyleDim, EmbeddingsOf(images))
                                ELSE NoFile,
                       memo |-> NoMemo, change |-> IdleChange, before |-> << >>,
                       completed |-> 0, reads |-> 0, last_read |-> None]
    /\ sessions = EmptyStore /\ req = IdleReq /\ disk = NoDisk
    /\ WorkerIdle /\ SyncIdle /\ StreamIdle /\ SessionIdle /\ ConcIdle

\* retrieve: index_registry.get_index(style_id).get_embeddings()
StyleRead ==
    /\ rag.pc = "style" /\ rag.reads < MaxReads
    /\ LET r == IF rag.memo # NoMemo
                THEN [outcome |-> "ok", value |-> rag.memo.embeddings]
                ELSE load_from_cache(rag.file, StyleDim)
       IN rag' = [rag EXCEPT !.reads = @ + 1,
                             !.memo = IF r.outcome = "ok" THEN Loaded(r.value) ELSE @,
                             !.last_read = [completed |-> rag.completed,
                                            changing |-> rag.change.pc # "idle",
                                            before |-> rag.before,
                                            images |-> rag.images,
                                            outcome |-> r.outcome, value |-> r.value]]
    /\ UNCHANGED <<conc, worker, req, disk, sessions, syncVars, streamVars, sessionVars>>

\* add_images_to_existing_style / fs_delete_images_from_style: the image
\* files and reference_images of style.json, for a call that adds or deletes
\* at least one image
ChangeFiles(kind, names) ==
    /\ rag.pc = "style" /\ rag.change.pc = "idle" /\ rag.completed < MaxChanges
    /\ \/ /\ kind = "add" /\ names = {rag.next_image}
          /\ Len(rag.images) < MaxRefImages + 1
       \/ /\ kind = "delete" /\ names # {} /\ names \subseteq Range(rag.images)
    /\ rag' = [rag EXCEPT !.images = IF kind = "add" THEN Append(@, rag.next_image)
                                     ELSE Keep(@, names),
                          !.next_image = IF kind = "add" THEN @ + 1 ELSE @,
                          !.change = [pc |-> "drop", kind |-> kind, before |-> rag.images,
                                      embedded |-> << >>]]
    /\ UNCHANGED <<conc, worker, req, disk, sessions, syncVars, streamVars, sessionVars>>

\* del index_registry._indices[style_id], then get_index and build_index up
\* to _save_to_cache; after a delete the build runs only if images remain
DropIndex ==
    /\ rag.pc = "style" /\ rag.change.pc = "drop"
    /\ rag' = [rag EXCEPT !.memo = NoMemo,
                          !.change = IF rag.images = << >> THEN IdleChange
                                     ELSE [@ EXCEPT !.pc = "save",
                                                    !.embedded = EmbeddingsOf(rag.images)],
                          !.before = IF rag.images = << >> THEN rag.change.before ELSE @,
                          !.completed = IF rag.images = << >> THEN @ + 1 ELSE @]
    /\ UNCHANGED <<conc, worker, req, disk, sessions, syncVars, streamVars, sessionVars>>

\* _save_to_cache of the rebuild: open(cache_path, 'w')
SaveOpen ==
    /\ rag.pc = "style" /\ rag.change.pc = "save"
    /\ rag' = [rag EXCEPT !.file = PartialFile, !.change.pc = "writing"]
    /\ UNCHANGED <<conc, worker, req, disk, sessions, syncVars, streamVars, sessionVars>>

\* _save_to_cache of the rebuild: json.dump done, file closed; the change
\* operation returns
SaveClose ==
    /\ rag.pc = "style" /\ rag.change.pc = "writing"
    /\ rag' = [rag EXCEPT !.file = CacheFile(StyleDim, rag.change.embedded),
                          !.change = IdleChange, !.before = rag.change.before,
                          !.completed = @ + 1]
    /\ UNCHANGED <<conc, worker, req, disk, sessions, syncVars, streamVars, sessionVars>>

StyleNext ==
    \/ StyleRead
    \/ \E kind \in {"add", "delete"}, names \in SUBSET (1..(MaxRefImages + MaxChanges)) :
          ChangeFiles(kind, names)
    \/ DropIndex
    \/ SaveOpen
    \/ SaveClose

SpecStyle == StyleInit /\ [][StyleNext]_vars

\* ------------------------------------------------------------ SpecPrune
\* generated_outputs as the routes' _prune_generations sees it: disk.dirs
\* maps the name of a generation directory (its timestamp) to the style.id of
\* its metadata.json, or to "nometa" if it has none or an unreadable one.
StyleS == "S"
StyleT == "T"
NoMeta == "nometa"

\* sorted(entries, reverse=True)
MaxName == MAX_GENERATIONS_PER_STYLE + MaxExcess + MaxOtherDirs + 1 + MaxRequests
RECURSIVE SortedDescIn(_, _, _)
SortedDescIn(names, lo, hi) ==
    IF lo > hi THEN << >>
    ELSE IF lo = hi THEN (IF lo \in names THEN <<lo>> ELSE << >>)
    ELSE SortedDescIn(names, ((lo + hi) \div 2) + 1, hi)
            \o SortedDescIn(names, lo, (lo + hi) \div 2)
MutSortedDesc(names) ==
    [i \in 1..Cardinality(names) |->
        SortedDescIn(names, 1, MaxName)[Cardinality(names) + 1 - i]]
SortedDesc(names) == SortedDescIn(names, 1, MaxName)

\* _prune_generations(style_id): the directories left afterwards
prune_generations(dirs, style_id) ==
    LET entries == SortedDesc(DOMAIN dirs)
        style_dirs == SelectSeq(entries, LAMBDA entry : dirs[entry] = style_id)
        old_dirs == SubSeq(style_dirs, MAX_GENERATIONS_PER_STYLE + 1, Len(style_dirs))
    IN [entry \in DOMAIN dirs \ Range(old_dirs) |-> dirs[entry]]

\* directories 1..n: the others first (oldest) or last (newest)
Layout(nS, nT, nN, others_old) ==
    [n \in 1..(nS + nT + nN) |->
        LET k == IF others_old THEN n ELSE n - nS
        IN IF k \in 1..nT THEN StyleT
           ELSE IF k \in (nT + 1)..(nT + nN) THEN NoMeta
           ELSE StyleS]

PruneInit ==
    /\ \E nS \in (MAX_GENERATIONS_PER_STYLE - 2)..(MAX_GENERATIONS_PER_STYLE + MaxExcess),
          nT \in 0..MaxOtherDirs, nN \in 0..1, others_old \in BOOLEAN :
          disk = [kind |-> "generated_outputs", dirs |-> Layout(nS, nT, nN, others_old),
                  next_name |-> nS + nT + nN + 1, requests |-> 0]
    /\ last = None
    /\ sessions = EmptyStore /\ req = IdleReq
    /\ ops = 0 /\ style_summary = NoSummaries /\ was_reset = {}
    /\ WorkerIdle /\ SyncIdle /\ StreamIdle /\ ConcIdle /\ RagIdle

\* a generate or refine route that ran to its end: the request left a new
\* directory, with metadata if an image was saved, and the route prunes the
\* request's style
RouteDone(style_id, saved) ==
    /\ disk.kind = "generated_outputs" /\ disk.requests < MaxRequests
    /\ LET before == disk.dirs @@ (disk.next_name :> IF saved THEN style_id ELSE NoMeta)
       IN /\ disk' = [disk EXCEPT !.dirs = prune_generations(before, style_id),
                                  !.next_name = @ + 1, !.requests = @ + 1]
          /\ last' = [op |-> "prune", style_id |-> style_id, before |-> before]
    /\ UNCHANGED <<auxVars, worker, req, sessions, syncVars, streamVars, ops, style_summary,
                   was_reset>>

PruneNext == \E style_id \in {StyleS, StyleT}, saved \in BOOLEAN : RouteDone(style_id, saved)

SpecPrune == PruneInit /\ [][PruneNext]_vars

\* ---------------------------------------------------------- SpecBracket
\* The thread pool of one synchronous request: client.generate opens
\* ThreadPoolExecutor(max_workers=num_images) after validate_config,
\* client.refine opens ThreadPoolExecutor(max_workers=max(num_images, 1)) for
\* a GenerationConfig that nobody validates.  conc.running are the workers in
\* flight.
BracketInit ==
    /\ \E api \in {"generate", "refine"},
          n \in (MinImages - 1)..(MaxImages + MaxOver) :
          conc = [pc |-> "bracket", api |-> api, num_images |-> n, stage |-> "start",
                  max_workers |-> 0, submitted |-> 0, running |-> {}, finished |-> {}]
    /\ sessions = EmptyStore /\ req = IdleReq /\ disk = NoDisk
    /\ WorkerIdle /\ SyncIdle /\ StreamIdle /\ SessionIdle /\ RagIdle

\* adapter.generate validates the config, adapter.refine does not; then the
\* client opens its executor
OpenExecutor ==
    /\ conc.pc = "bracket" /\ conc.stage = "start"
    /\ conc' = IF conc.api = "generate" /\ ~validate_config(conc.num_images, GoodResolution)
               THEN [conc EXCEPT !.stage = "config_invalid"]
               ELSE [conc EXCEPT !.stage = "submitting",
                                 !.max_workers = IF conc.api = "generate" \/ conc.num_images > 1
                                                 THEN conc.num_images ELSE 1]
    /\ UNCHANGED <<rag, worker, req, disk, sessions, syncVars, streamVars, sessionVars>>

\* executor.submit for the next slot: the pool starts a thread for it as
\* long as it has fewer than max_workers threads
Submit ==
    /\ conc.pc = "bracket" /\ conc.stage = "submitting"
    /\ conc.submitted < conc.num_images
    /\ Cardinality(conc.running) < conc.max_workers
    /\ conc' = [conc EXCEPT !.submitted = @ + 1, !.running = @ \cup {conc.submitted}]
    /\ UNCHANGED <<rag, worker, req, disk, sessions, syncVars, streamVars, sessionVars>>

\* the worker of slot i returns or raises
WorkerExit(i) ==
    /\ conc.pc = "bracket" /\ i \in conc.running
    /\ conc' = [conc EXCEPT !.running = @ \ {i}, !.finished = @ \cup {i}]
    /\ UNCHANGED <<rag, worker, req, disk, sessions, syncVars, streamVars, sessionVars>>

\* as_completed is exhausted and the with block shuts the pool down
CloseExecutor ==
    /\ conc.pc = "bracket" /\ conc.stage = "submitting"
    /\ conc.submitted = conc.num_images /\ conc.running = {}
    /\ conc' = [conc EXCEPT !.stage = "returned"]
    /\ UNCHANGED <<rag, worker, req, disk, sessions, syncVars, streamVars, sessionVars>>

BracketNext ==
    \/ OpenExecutor
    \/ Submit
    \/ \E i \in 0..(MaxImages + MaxOver) : WorkerExit(i)
    \/ CloseExecutor

SpecBracket == BracketInit /\ [][BracketNext]_vars

\* ----------------------------------------------------------- SpecFeedback
\* A long run of requests on the one context of (SessionA, StyleC): feedback
\* appends with a few generate and refine requests among them, through
\* several summarizations.
FeedbackRunInit ==
    /\ sessions = EmptyStore
    /\ req = LongRun
    /\ ops = 0 /\ last = None /\ was_reset = {}
    /\ style_summary = [st \in StyleIds |-> << >>]
    /\ disk = NoDisk
    /\ WorkerIdle /\ SyncIdle /\ StreamIdle /\ ConcIdle /\ RagIdle

\* generate and refine turns in the context of (SessionA, StyleC)
OtherTurns ==
    IF key_of(SessionA, StyleC) \in DOMAIN sessions
    THEN turn_count(sessions[key_of(SessionA, StyleC)])
            - feedback_count(sessions[key_of(SessionA, StyleC)])
    ELSE 0

FeedbackRunNext ==
    \/ AddFeedback(SessionA, StyleC)
    \/ OtherTurns < MaxOtherTurns /\ SessGenerate(SessionA, StyleC)
    \/ OtherTurns < MaxOtherTurns /\ SessRefine(SessionA, StyleC)

SpecFeedback == FeedbackRunInit /\ [][FeedbackRunNext]_vars

\* ------------------------------------------------------------- SpecAnchor
\* Generate, refine and feedback requests on the one context of
\* (SessionA, StyleC), with a compiler that may return an empty refined
\* intent and two different refine prompts: the histories refine assembles
\* its context from.
AnchorInit ==
    /\ sessions = EmptyStore
    /\ req = AnchorRun
    /\ ops = 0 /\ last = None /\ was_reset = {}
    /\ style_summary = [st \in StyleIds |-> << >>]
    /\ disk = NoDisk
    /\ WorkerIdle /\ SyncIdle /\ StreamIdle /\ ConcIdle /\ RagIdle

AnchorNext ==
    \/ SessGenerate(SessionA, StyleC)
    \/ SessRefine(SessionA, StyleC)
    \/ AddFeedback(SessionA, StyleC)

SpecAnchor == AnchorInit /\ [][AnchorNext]_vars

\* --------------------------------------------------------------- SpecRace
\* One generate or refine request with a session beside add_feedback
\* requests on the same (session, style).  Contexts are objects on a heap:
\* `store` is the object self._sessions holds for the key (0: no entry),
\* `ctx` the object the request's local variable `context` refers to.
RaceKinds == {"generate", "refine"}

\* the context FeedbackThreshold - 1 feedback requests left behind
NearThreshold ==
    [session_id |-> SessionA, style_id |-> StyleC,
     turns |-> [k \in 1..(FeedbackThreshold - 1) |-> FeedbackTurn(k, StyleC)]]

RaceInit ==
    /\ \E kind \in RaceKinds, prior \in BOOLEAN :
          conc = [pc |-> "race", kind |-> kind,
                  heap |-> IF prior THEN <<NearThreshold>> ELSE << >>,
                  store |-> IF prior THEN 1 ELSE 0,
                  request |-> "start", ctx |-> 0, feedbacks |-> 0,
                  reset_during |-> FALSE, reset_after |-> FALSE]
    /\ sessions = EmptyStore /\ req = IdleReq /\ disk = NoDisk
    /\ WorkerIdle /\ SyncIdle /\ StreamIdle /\ SessionIdle /\ RagIdle

\* the heap and the store entry after get_or_create
RaceFetched ==
    IF conc.store = 0
    THEN [heap |-> Append(conc.heap, NewContext(SessionA, StyleC)),
          store |-> Len(conc.heap) + 1]
    ELSE [heap |-> conc.heap, store |-> conc.store]

\* generate / generate_async / generate_streaming: context = get_or_create,
\* then the history call; refine: get_or_create and the two scans
RaceLoad ==
    /\ conc.pc = "race" /\ conc.request = "start"
    /\ LET f == RaceFetched
           raised == /\ conc.kind = "generate"
                     /\ conversation_history(f.heap[f.store]).raised
       IN conc' = [conc EXCEPT !.heap = f.heap, !.store = f.store,
                               !.ctx = f.store,
                               !.request = IF raised THEN "failed" ELSE "running"]
    /\ UNCHANGED <<rag, worker, req, disk, sessions, syncVars, streamVars, sessionVars>>

\* the turn of the request: generate appends to the context it loaded,
\* refine calls get_or_create again and appends to what it returns
RaceRecord ==
    /\ conc.pc = "race" /\ conc.request = "running"
    /\ LET f == IF conc.kind = "refine" THEN RaceFetched
                ELSE [heap |-> conc.heap, store |-> conc.store]
           target == IF conc.kind = "refine" THEN f.store ELSE conc.ctx
           turn == ConversationTurn(next_turn_number(f.heap[target]), conc.kind,
                                    UserInput, StyleC, CompiledIntent,
                                    << >>, SomeImages)
       IN conc' = [conc EXCEPT !.heap = [f.heap EXCEPT ![target].turns = Append(@, turn)],
                               !.store = f.store, !.ctx = target,
                               !.request = "done"]
    /\ UNCHANGED <<rag, worker, req, disk, sessions, syncVars, streamVars, sessionVars>>

\* one add_feedback request, start to end: get_or_create, the append, and
\* at the threshold summarize_feedback, which on success ends with
\* session_store.reset (del self._sessions[key])
RaceFeedback ==
    /\ conc.pc = "race"
    /\ conc.feedbacks < FeedbackThreshold + MaxExtraFeedback
    /\ LET f == RaceFetched
           turn == FeedbackTurn(next_turn_number(f.heap[f.store]), StyleC)
           heap == [f.heap EXCEPT ![f.store].turns = Append(@, turn)]
       IN \E gpt_ok \in BOOLEAN :
            LET did_reset == threshold_reached(heap[f.store]) /\ gpt_ok
            IN conc' = [conc EXCEPT
                          !.heap = heap,
                          !.store = IF did_reset THEN 0 ELSE f.store,
                          !.feedbacks = @ + 1,
                          !.reset_during = @ \/ (did_reset /\ conc.request = "running"),
                          !.reset_after = @ \/ (did_reset /\ conc.request = "done")]
    /\ UNCHANGED <<rag, worker, req, disk, sessions, syncVars, streamVars, sessionVars>>

RaceNext ==
    \/ RaceLoad
    \/ RaceRecord
    \/ RaceFeedback

SpecRace == RaceInit /\ [][RaceNext]_vars

\* ------------------------------------------------------------ SpecOutputs
\* Requests that write their files under generated_outputs at the same
\* time.  The clock runs in ticks, TicksPerSecond to the second; a file is
\* the pair of its directory and its name, and holds the request that
\* wrote it last.
Writers == 1..NumThreads

\* get_timestamp: datetime.now().strftime("%Y%m%d_%H%M%S"), the clock cut
\* to whole seconds
get_timestamp(clock) == clock \div TicksPerSecond

SketchName(i) == "sketch_" \o ToString(i) \o ".png"

OutputsInit ==
    /\ disk = [kind |-> "outputs", clock |-> 0,
               dirs |-> {}, files |-> [f \in {} |-> 0],
               writers |-> [w \in Writers |-> [pc |-> "start", dir |-> 0, next |-> 0]],
               overwritten |-> FALSE]
    /\ sessions = EmptyStore /\ req = IdleReq
    /\ WorkerIdle /\ SyncIdle /\ StreamIdle /\ SessionIdle /\ ConcIdle /\ RagIdle

Tick ==
    /\ disk.kind = "outputs" /\ disk.clock < MaxClock
    /\ disk' = [disk EXCEPT !.clock = @ + 1]
    /\ UNCHANGED <<auxVars, worker, req, sessions, syncVars, streamVars, sessionVars>>

\* timestamp = get_timestamp(); create_output_directory(output_dir,
\* timestamp): mkdir(parents=True, exist_ok=True) takes an existing directory
OpenDirectory(w) ==
    /\ disk.kind = "outputs" /\ disk.writers[w].pc = "start"
    /\ disk' = [disk EXCEPT !.dirs = @ \cup {get_timestamp(disk.clock)},
                            !.writers[w].dir = get_timestamp(disk.clock),
                            !.writers[w].pc = "saving"]
    /\ UNCHANGED <<auxVars, worker, req, sessions, syncVars, streamVars, sessionVars>>

\* open(path, 'wb') / open(path, 'w'): creates the file or truncates the one there
WriteFile(w, name) ==
    LET f == <<disk.writers[w].dir, name>>
    IN [disk EXCEPT !.files = (f :> w) @@ @,
                    !.overwritten = @ \/ (f \in DOMAIN disk.files /\ disk.files[f] # w)]

\* the save loop: out = Path(output_dir) / f"sketch_{i}.png"
SaveSketch(w) ==
    /\ disk.kind = "outputs" /\ disk.writers[w].pc = "saving"
    /\ LET i == disk.writers[w].next
           d == WriteFile(w, SketchName(i))
       IN disk' = [d EXCEPT !.writers[w].next = i + 1,
                            !.writers[w].pc = IF i + 1 = MaxSaved THEN "metadata"
                                              ELSE "saving"]
    /\ UNCHANGED <<auxVars, worker, req, sessions, syncVars, streamVars, sessionVars>>

\* save_metadata(metadata_dict, os.path.dirname(successful_paths[0]))
SaveMetadata(w) ==
    /\ disk.kind = "outputs" /\ disk.writers[w].pc = "metadata"
    /\ disk' = [WriteFile(w, "metadata.json") EXCEPT !.writers[w].pc = "done"]
    /\ UNCHANGED <<auxVars, worker, req, sessions, syncVars, streamVars, sessionVars>>

OutputsNext ==
    \/ Tick
    \/ \E w \in Writers : OpenDirectory(w)
    \/ \E w \in Writers : SaveSketch(w)
    \/ \E w \in Writers : SaveMetadata(w)

SpecOutputs == OutputsInit /\ [][OutputsNext]_vars

\* ---------------------------------------------------------- SpecSingleton
\* First requests arriving together in the server's thread pool.  Each
\* handler calls PipelineService() and then a service method, which starts
\* with self._initialize() and then records a turn in self.session_store.
\* `instance` is cls._instance (0: None); `objs` the PipelineService objects
\* made so far, each with its _initialized flag ("unset" until line 41 has
\* run on it) and its session_store
\* attribute (0: not set); `stores` the SessionStore objects, each the set
\* of requests whose turn it holds.
SingletonInit ==
    /\ conc = [pc |-> "singleton", instance |-> 0, objs |-> << >>, stores |-> << >>,
               threads |-> [t \in Threads |-> [pc |-> "new_check", self |-> 0]]]
    /\ sessions = EmptyStore /\ req = IdleReq /\ disk = NoDisk
    /\ WorkerIdle /\ SyncIdle /\ StreamIdle /\ SessionIdle /\ RagIdle

\* __new__: if cls._instance is None
NewCheck(t) ==
    /\ conc.pc = "singleton" /\ conc.threads[t].pc = "new_check"
    /\ conc' = [conc EXCEPT !.threads[t].pc =
                   IF conc.instance = 0 THEN "new_assign" ELSE "new_return"]
    /\ UNCHANGED <<rag, worker, req, disk, sessions, syncVars, streamVars, sessionVars>>

\* __new__: cls._instance = super().__new__(cls)
NewAssign(t) ==
    /\ conc.pc = "singleton" /\ conc.threads[t].pc = "new_assign"
    /\ conc' = [conc EXCEPT
                  !.objs = Append(@, [initialized |-> "unset", session_store |-> 0]),
                  !.instance = Len(conc.objs) + 1,
                  !.threads[t].pc = "new_flag"]
    /\ UNCHANGED <<rag, worker, req, disk, sessions, syncVars, streamVars, sessionVars>>

\* __new__: cls._instance._initialized = False, on the object cls._instance
\* refers to now
NewFlag(t) ==
    /\ conc.pc = "singleton" /\ conc.threads[t].pc = "new_flag"
    /\ conc' = [conc EXCEPT !.objs[conc.instance].initialized = "False",
                            !.threads[t].pc = "new_return"]
    /\ UNCHANGED <<rag, worker, req, disk, sessions, syncVars, streamVars, sessionVars>>

\* __new__: return cls._instance
NewReturn(t) ==
    /\ conc.pc = "singleton" /\ conc.threads[t].pc = "new_return"
    /\ conc' = [conc EXCEPT !.threads[t].self = conc.instance,
                            !.threads[t].pc = "init_check"]
    /\ UNCHANGED <<rag, worker, req, disk, sessions, syncVars, streamVars, sessionVars>>

\* _initialize: if self._initialized: return.  An object whose flag was
\* never set raises AttributeError.
InitCheck(t) ==
    /\ conc.pc = "singleton" /\ conc.threads[t].pc = "init_check"
    /\ LET flag == conc.objs[conc.threads[t].self].initialized
       IN conc' = [conc EXCEPT !.threads[t].pc =
                      IF flag = "unset" THEN "failed"
                      ELSE IF flag = "True" THEN "use" ELSE "build"]
    /\ UNCHANGED <<rag, worker, req, disk, sessions, syncVars, streamVars, sessionVars>>

\* _initialize: the components, self.session_store = SessionStore() among them
InitBuild(t) ==
    /\ conc.pc = "singleton" /\ conc.threads[t].pc = "build"
    /\ conc' = [conc EXCEPT !.stores = Append(@, {}),
                            !.objs[conc.threads[t].self].session_store =
                                Len(conc.stores) + 1,
                            !.threads[t].pc = "set_flag"]
    /\ UNCHANGED <<rag, worker, req, disk, sessions, syncVars, streamVars, sessionVars>>

\* _initialize: self._initialized = True
InitDone(t) ==
    /\ conc.pc = "singleton" /\ conc.threads[t].pc = "set_flag"
    /\ conc' = [conc EXCEPT !.objs[conc.threads[t].self].initialized = "True",
                            !.threads[t].pc = "use"]
    /\ UNCHANGED <<rag, worker, req, disk, sessions, syncVars, streamVars, sessionVars>>

\* the method body: context = self.session_store.get_or_create(...);
\* context.add_turn(turn)
UseStore(t) ==
    /\ conc.pc = "singleton" /\ conc.threads[t].pc = "use"
    /\ LET store == conc.objs[conc.threads[t].self].session_store
       IN conc' = IF store = 0
                  THEN [conc EXCEPT !.threads[t].pc = "failed"]
                  ELSE [conc EXCEPT !.stores[store] = @ \cup {t},
                                    !.threads[t].pc = "done"]
    /\ UNCHANGED <<rag, worker, req, disk, sessions, syncVars, streamVars, sessionVars>>

SingletonNext ==
    \E t \in Threads :
        \/ NewCheck(t)
        \/ NewAssign(t)
        \/ NewFlag(t)
        \/ NewReturn(t)
        \/ InitCheck(t)
        \/ InitBuild(t)
        \/ InitDone(t)
        \/ UseStore(t)

SpecSingleton == SingletonInit /\ [][SingletonNext]_vars

\* ------------------------------------------------------ claims on SpecGen
\* the slot lists the request ends with
FinalPaths == IF Streaming THEN image_paths ELSE generated_paths
FinalErrors == IF Streaming THEN image_errors ELSE errors
KeyOfReq == key_of(req.session_id, req.style_id)
TurnsBefore(key) ==
    IF key \in DOMAIN req.sessions0 THEN req.sessions0[key].turns ELSE << >>
C8_Increasing(seq) == \A j, k \in 1..Len(seq) : j < k => seq[j] < seq[k]

\* C1: every GenerationResult a synchronous generate or refine returns has
\* num_images entries in images and in image_errors, and in every slot
\* exactly one of the two is non-null; with no success every slot has an error.
C1_ExactlyOnePerSlot ==
    result # None =>
        /\ Len(result.images) = req.num_images
        /\ Len(result.image_errors) = req.num_images
        /\ \A k \in 1..req.num_images :
              (result.images[k] = None) # (result.image_errors[k] = None)
        /\ (\A k \in 1..req.num_images : result.images[k] = None) =>
              (\A k \in 1..req.num_images : result.image_errors[k] # None)

C1_Witness ==
    /\ result # None /\ req.api = "refine" /\ req.num_images = 3
    /\ \A k \in 1..3 : result.images[k] = None
    /\ {result.image_errors[k].msg : k \in 1..3} = {"load_failed", "failed", "no_candidates"}

\* C2: a failure confined to one slot, a failure while saving that slot's
\* image included, never aborts the request: no request ends by an
\* exception of one slot instead of a result.
C2_SlotFailureContained ==
    /\ req.pc # "aborted"
    /\ (req.pc = "done" /\ ~Streaming) => result # None

\* C5: synchronous generate submits exactly the workers 0..num_images-1 and,
\* whatever order they complete in, position i of the result holds the
\* outcome of worker i: its image, saved as sketch_i, or its error.
C5_SlotOrder ==
    (req.api = "generate" /\ req.pc \in {"collecting", "saved", "generated", "done"}) =>
        /\ req.spawned = Slots
        /\ \A i \in Slots :
              /\ i \notin Range(order) => (results[i + 1] = None /\ errors[i + 1] = None)
              /\ i \in Range(order) => (results[i + 1] # None \/ errors[i + 1] # None)
              /\ results[i + 1] # None => results[i + 1] = Bytes(i)
              /\ errors[i + 1] # None => errors[i + 1].image = i + 1
        /\ result # None =>
              \A i \in Slots :
                 /\ result.images[i + 1] # None =>
                       /\ result.images[i + 1] = PathOf(i)
                       /\ disk.files[i] = Bytes(i)
                 /\ result.image_errors[i + 1] # None =>
                       result.image_errors[i + 1].image = i + 1

C5_Witness ==
    /\ req.api = "generate" /\ req.pc = "done" /\ req.num_images = 4
    /\ order = <<3, 1, 0, 2>>
    /\ result.images[2] = None /\ result.images[4] = PathOf(3)

C6_OutsideBounds ==
    \/ req.num_images < 3 \/ req.num_images > 6
    \/ req.resolution[1] <= 0 \/ req.resolution[2] <= 0
C6_NoWorkDone ==
    /\ req.spawned = {} /\ tasks = << >> /\ order = << >>
    /\ ~disk.dir /\ DOMAIN disk.files = {} /\ disk.metadata = None
    /\ result = None
    /\ \A k \in DOMAIN sessions : sessions[k].turns = TurnsBefore(k)

\* C6 as stated: a generate request, synchronous or streaming, with
\* num_images outside 3..6 or a non-positive resolution does no work at all
\* and produces no event other than an error.
C6_Original ==
    (req.api \in {"generate", "generate_streaming"} /\ C6_OutsideBounds) =>
        /\ C6_NoWorkDone
        /\ \A k \in 1..Len(events) : events[k].event = "error"

\* C6 amended: such a request spawns no worker, creates no directory or
\* file, appends no turn and produces no image or complete event; the
\* streaming variant has emitted its two progress events before the
\* configuration is validated, and the error event follows them.
C6_ValidatedBeforeWork ==
    (req.api \in {"generate", "generate_streaming"} /\ C6_OutsideBounds) =>
        /\ C6_NoWorkDone
        /\ req.pc \in {"start", "compiled", "retrieved", "config_invalid",
                      "history_error", "pipeline_error", "disconnected"}
        /\ \A k \in 1..Len(events) : events[k].event \in {"progress", "error"}
        /\ \A k \in 1..Len(events) :
              events[k].event = "progress" =>
                 events[k].stage \in {"prompt_compiled", "rag_complete"}
        /\ (req.pc = "config_invalid" /\ Streaming) => events[Len(events)] = ErrorEvent
        /\ (req.pc = "config_invalid" /\ ~Streaming) => events = << >>

C6_Witness ==
    /\ req.pc = "config_invalid" /\ Streaming /\ req.num_images = 7
    /\ req.session_id = SessionA
    /\ events = <<ProgressEvent("prompt_compiled"), ProgressEvent("rag_complete"), ErrorEvent>>

\* C7: when a request has ended, a metadata file exists if and only if at
\* least one slot succeeded, that is, at least one image was saved.
C7_MetadataIffSuccess ==
    req.pc \in {"generated", "done", "aborted"} =>
        ((disk.metadata # None) <=> (DOMAIN disk.files # {}))

\* C8: a metadata file lists the file names of exactly the successful slots,
\* in slot order, and the error strings of exactly the failed slots, in slot
\* order; the two lists together have num_images entries.
C8_MetadataLists ==
    disk.metadata # None =>
        LET md == disk.metadata
            ok == {i \in Slots : FinalPaths[i + 1] # None}
            bad == {i \in Slots : FinalErrors[i + 1] # None}
        IN /\ Len(md.images) = Cardinality(ok)
           /\ {md.images[k] : k \in 1..Len(md.images)} = {basename(PathOf(i)) : i \in ok}
           /\ C8_Increasing(md.images)
           /\ Len(md.image_errors) = Cardinality(bad)
           /\ \A k \in 1..Len(md.image_errors) :
                 /\ md.image_errors[k].image - 1 \in bad
                 /\ md.image_errors[k] = FinalErrors[md.image_errors[k].image]
           /\ C8_Increasing([k \in 1..Len(md.image_errors) |-> md.image_errors[k].image])
           /\ Len(md.images) + Len(md.image_errors) = req.num_images

C8_Witness ==
    /\ req.api = "generate" /\ req.num_images = 4 /\ req.pc = "done"
    /\ result.images = <<PathOf(0), PathOf(1), None, PathOf(3)>>
    /\ disk.metadata # None
    /\ disk.metadata.images = <<0, 1, 3>>
    /\ Len(disk.metadata.image_errors) = 1

\* C9: a generate request (synchronous or streaming) with a session id that
\* runs to completion has appended exactly one generate turn to its context,
\* with the refined intent, the negative constraints and one image path per
\* slot, null at the failed slots, and nothing before completion; without a
\* session id the store is never touched.
C9_TurnRecorded ==
    req.api \in {"generate", "generate_streaming"} =>
        IF req.session_id = NoSession
        THEN sessions = req.sessions0
        ELSE /\ \A k \in DOMAIN sessions : k # KeyOfReq => sessions[k] = req.sessions0[k]
             /\ (req.pc # "done" /\ KeyOfReq \in DOMAIN sessions) =>
                   sessions[KeyOfReq].turns = TurnsBefore(KeyOfReq)
             /\ req.pc = "done" =>
                   /\ KeyOfReq \in DOMAIN sessions
                   /\ Len(sessions[KeyOfReq].turns) = Len(TurnsBefore(KeyOfReq)) + 1
                   /\ SubSeq(sessions[KeyOfReq].turns, 1, Len(TurnsBefore(KeyOfReq)))
                         = TurnsBefore(KeyOfReq)
                   /\ LET t == sessions[KeyOfReq].turns[Len(sessions[KeyOfReq].turns)]
                      IN /\ t.role = "generate"
                         /\ t.turn_number = Len(TurnsBefore(KeyOfReq)) + 1
                         /\ t.refined_intent = CompiledIntent
                         /\ t.negative_constraints = CompiledNegatives
                         /\ Len(t.image_paths) = req.num_images
                         /\ \A i \in Slots :
                               t.image_paths[i + 1] =
                                  IF FinalErrors[i + 1] # None THEN None ELSE PathOf(i)

C9_Witness ==
    /\ req.api = "generate_streaming" /\ req.pc = "done" /\ req.session_id = SessionA
    /\ req.sessions0 = EmptyStore
    /\ Len(sessions[KeyOfReq].turns) = 1
    /\ sessions[KeyOfReq].turns[1].image_paths = <<PathOf(0), None, PathOf(2)>>

\* -------------------------------------------------- claims on SpecSession
\* C10: after any sequence of generate, refine, feedback, summarize and
\* reset requests run one after the other, the k-th turn of every context in
\* the store has turn number k, also in a context created after a reset.
C10_TurnNumbers ==
    \A key \in DOMAIN sessions :
        \A k \in 1..Len(sessions[key].turns) : sessions[key].turns[k].turn_number = k

C10_Witness ==
    \E key \in was_reset \cap DOMAIN sessions :
        /\ Len(sessions[key].turns) = 2
        /\ sessions[key].turns[1].role = "generate"
        /\ sessions[key].turns[2].role = "feedback"
        /\ sessions[key].turns[2].turn_number = 2

\* ----------------------------------------------------- claims on SpecConc
\* C11: when requests that ran at the same time against one key have all
\* returned, the context the store holds contains the turn of every one of
\* them and no two of its turns carry the same turn number.
C11_AppendsSerialized ==
    (\A t \in Threads : conc.threads[t].pc = "done") =>
        LET turns == conc.heap[conc.store].turns
        IN /\ \A t \in Threads : \E k \in 1..Len(turns) : turns[k].user_input = ThreadInput(t)
           /\ \A j, k \in 1..Len(turns) : j # k => turns[j].turn_number # turns[k].turn_number

\* -------------------------------------------------- claims on SpecSession
\* C12: contexts of different (session_id, style_id) pairs are independent:
\* the context the store returns for a pair is the context of that pair and
\* of no other, also when an id contains the separator of the store key.
C12_KeysIndependent ==
    \A session_id \in SessionIds, style_id \in StyleIds :
        key_of(session_id, style_id) \in DOMAIN sessions =>
            /\ sessions[key_of(session_id, style_id)].session_id = session_id
            /\ sessions[key_of(session_id, style_id)].style_id = style_id

\* C13: a feedback request whose append is the 10th feedback turn of its
\* context calls summarization, and when it has returned the context the
\* store gives for its key has turn count 0.
C13_ThresholdResets ==
    (last # None /\ last.op = "add_feedback" /\ last.feedback_count = 10) =>
        /\ last.triggered
        /\ ~last.error =>
              /\ last.summarized
              /\ turn_count(get_or_create(sessions, last.session_id, last.style_id)
                               [key_of(last.session_id, last.style_id)]) = 0

C13_Witness ==
    /\ last # None /\ last.op = "add_feedback" /\ last.feedback_count = 10
    /\ ~last.error /\ last.summarized /\ last.turn_number = 10
    /\ key_of(last.session_id, last.style_id) \notin DOMAIN sessions
    /\ Len(style_summary[last.style_id]) = 10

C15_ResultShape ==
    rag.pc = "returned" =>
        /\ Len(rag.result.images) = Len(rag.result.scores)
        /\ \A i \in 1..Len(rag.result.images) :
              /\ rag.result.images[i].path \in 1..Len(rag.embeddings)
              /\ rag.result.images[i].embedding
                    = rag.embeddings[rag.result.images[i].path].embedding
              /\ rag.result.scores[i]
                    = cosine_similarity(rag.embeddings[1].embedding,
                                        rag.result.images[i].embedding)
        /\ \A i, j \in 1..Len(rag.result.scores) :
              i < j => rag.result.scores[i] >= rag.result.scores[j]

C15_Witness ==
    /\ rag.pc = "returned" /\ rag.entry = "retrieve" /\ rag.top_k = 0
    /\ Len(rag.embeddings) = 3 /\ rag.do_not_use = {}
    /\ rag.result.scores = <<100, 60, 0>>
    /\ rag.result.images[2].path = 3

C16_Eligible ==
    {i \in 1..Len(rag.embeddings) :
        /\ cosine_similarity(rag.embeddings[1].embedding, rag.embeddings[i].embedding)
              >= rag.min_similarity
        /\ i \notin rag.do_not_use}

\* C16: retrieve drops the candidates below the threshold and the excluded
\* ones before it truncates: it returns min(top_k, E) images, E being the
\* number of candidates at or above the threshold and not excluded.
C16_FilterBeforeTruncate ==
    (rag.pc = "returned" /\ rag.entry = "retrieve" /\ ~rag.include_negative
        /\ rag.top_k >= 1) =>
        Len(rag.result.images) =
            IF rag.top_k < Cardinality(C16_Eligible)
            THEN rag.top_k ELSE Cardinality(C16_Eligible)

\* C17: unless include_negative is set, no image that retrieve or
\* retrieve_by_text returns has a path in the style's do_not_use set.
C17_NoExcludedImage ==
    (rag.pc = "returned" /\ ~rag.include_negative) =>
        \A i \in 1..Len(rag.result.images) :
            rag.result.images[i].path \notin rag.do_not_use

\* ---------------------------------------------------- claims on SpecIndex
\* C18: get_embeddings never builds on read: with no cache file and nothing
\* loaded it fails as not built, no call makes an embedder call or writes
\* the cache file, and a set is returned only from a loaded set or from a
\* cache file that a build wrote.
C18_NoBuildOnRead ==
    rag.last_read # None =>
        /\ (rag.last_read.file_before = NoFile /\ rag.last_read.memo_before = NoMemo) =>
              rag.last_read.outcome = "not_built"
        /\ rag.last_read.embed_calls = 0
        /\ rag.last_read.file_after = rag.last_read.file_before
        /\ rag.last_read.outcome = "ok" =>
              \/ /\ rag.last_read.memo_before # NoMemo
                 /\ rag.last_read.value = rag.last_read.memo_before.embeddings
              \/ /\ rag.last_read.file_before # NoFile
                 /\ rag.last_read.file_before.state = "complete"
                 /\ rag.last_read.value = rag.last_read.file_before.embeddings

C18_Witness ==
    /\ rag.last_read # None /\ rag.last_read.outcome = "not_built"
    /\ rag.file = NoFile /\ rag.embed_calls = 0 /\ rag.reads = 2 /\ rag.images = 2

\* C19: a get_embeddings call that loads a cache file whose dimension is
\* not the active embedder's fails as stale, and no call returns vectors of
\* another dimension than the active embedder's.
C19_FailsClosedOnDimension ==
    rag.last_read # None =>
        /\ (/\ rag.last_read.memo_before = NoMemo
            /\ rag.last_read.file_before # NoFile
            /\ rag.last_read.file_before.state = "complete"
            /\ rag.last_read.file_before.embedding_dim # rag.embedder_dim) =>
              rag.last_read.outcome = "stale"
        /\ rag.last_read.outcome = "ok" =>
              \A i \in 1..Len(rag.last_read.value) :
                  rag.last_read.value[i].dim = rag.embedder_dim

C19_Witness ==
    /\ rag.last_read # None /\ rag.last_read.outcome = "stale"
    /\ rag.embedder_dim = 512
    /\ rag.file = CacheFile(768, <<Embedded(1, 768, 1), Embedded(2, 768, 1)>>)
    /\ rag.memo = NoMemo

\* C20: a get_embeddings call that runs while build_index is running gets
\* the complete old set or the complete new set, and never fails because it
\* met a cache file that is being written.
C20_AtomicReplace ==
    (rag.last_read # None /\ rag.last_read.building) =>
        /\ rag.last_read.outcome # "corrupted"
        /\ rag.last_read.file_before # PartialFile

\* ---------------------------------------------------- claims on SpecStyle

C21_Paths(value) == [i \in 1..Len(value) |-> value[i].image_path]

\* C21: once an operation that changed the style's image set has completed,
\* no get_embeddings call returns the set of before that change, and (with no
\* further change under way) none returns an embedding of an image that is no
\* longer among the style's images.
C21_ChangeInvalidates ==
    (/\ rag.pc = "style" /\ rag.last_read # None
     /\ rag.last_read.completed >= 1 /\ rag.last_read.outcome = "ok") =>
        /\ C21_Paths(rag.last_read.value) # rag.last_read.before
        /\ ~rag.last_read.changing =>
              \A i \in 1..Len(rag.last_read.value) :
                  rag.last_read.value[i].image_path \in Range(rag.last_read.images)

\* ------------------------------------------------------ claims on SpecGen
C22_Ended ==
    Streaming /\ req.pc \in {"done", "config_invalid", "aborted", "history_error",
                             "pipeline_error"}
C23_ImageEvents == SelectSeq(events, LAMBDA e : e.event = "image")
C24_IsRetry(e) == e.event = "progress" /\ e.stage = "retry"

\* C22: a streaming generate or refine request whose stream has been
\* consumed to its end has emitted exactly one complete event, and that
\* event is the last one of the stream.
C22_OneTerminalComplete ==
    C22_Ended =>
        /\ Cardinality({k \in 1..Len(events) : events[k].event = "complete"}) = 1
        /\ events[Len(events)].event = "complete"

\* C23: a streaming request whose stream has ended has emitted exactly one
\* image event per slot, numImages events with pairwise distinct indices, in
\* the order in which the workers completed, each with the slot's path or
\* the slot's error.
C23_OneImageEventPerSlot ==
    (C22_Ended /\ req.pc # "config_invalid") =>
        /\ Len(C23_ImageEvents) = req.num_images
        /\ {C23_ImageEvents[k].index : k \in 1..Len(C23_ImageEvents)} = Slots
        /\ [k \in 1..Len(C23_ImageEvents) |-> C23_ImageEvents[k].index] = order
        /\ \A k \in 1..Len(C23_ImageEvents) :
              LET e == C23_ImageEvents[k]
              IN /\ (e.sketch = None) # (e.error = None)
                 /\ e.sketch = image_paths[e.index + 1]
                 /\ e.error = image_errors[e.index + 1]

\* C24: in a stream, no image event of another slot lies between a retry
\* event of slot k and the image event of slot k, no retry event of slot k
\* follows the image event of slot k, and a stream that ran to its complete
\* event carries one retry event per retry attempt.
C24_RetryFlushedBeforeOwnImage ==
    Streaming =>
        /\ \A p, q \in 1..Len(events) :
              (/\ p < q /\ C24_IsRetry(events[p]) /\ events[q].event = "image"
               /\ events[q].index # events[p].index) =>
                 \E r \in (p + 1)..(q - 1) :
                    events[r].event = "image" /\ events[r].index = events[p].index
        /\ \A p, q \in 1..Len(events) :
              (p < q /\ events[p].event = "image" /\ C24_IsRetry(events[q])) =>
                 events[q].index # events[p].index
        /\ req.pc = "done" =>
              Len(SelectSeq(events, C24_IsRetry)) = req.transients

C26_Of(dirs, style_id) == {n \in DOMAIN dirs : dirs[n] = style_id}
C26_Newer(dirs, n) == {m \in C26_Of(dirs, dirs[n]) : m > n}

\* C26: a prune of style S removes exactly the directories of S that have
\* 100 or more newer directories of S; directories of other styles and
\* directories without metadata stay, no directory changes its metadata, and
\* the index and the session store are not touched.
C26_PruneKeepsNewest ==
    (disk # NoDisk /\ disk.kind = "generated_outputs" /\ last # None) =>
        /\ DOMAIN disk.dirs =
              {n \in DOMAIN last.before :
                  \/ last.before[n] # last.style_id
                  \/ Cardinality(C26_Newer(last.before, n)) < MAX_GENERATIONS_PER_STYLE}
        /\ \A n \in DOMAIN disk.dirs : disk.dirs[n] = last.before[n]
        /\ sessions = EmptyStore /\ rag = IdleRag

C26_Witness ==
    /\ disk # NoDisk /\ disk.kind = "generated_outputs" /\ last # None
    /\ last.style_id = StyleS
    /\ Cardinality(C26_Of(last.before, StyleS)) = 105
    /\ Cardinality(C26_Of(disk.dirs, StyleS)) = 100
    /\ DOMAIN last.before \ DOMAIN disk.dirs = 3..7
    /\ last.before[1] = StyleT /\ last.before[2] = NoMeta
    /\ 1 \in DOMAIN disk.dirs /\ 2 \in DOMAIN disk.dirs

\* -------------------------------------------------- claims on SpecBracket
\* C27: at no point of a generate or refine request are more than 6 of its
\* workers in flight, whatever number of images or source paths it asks for.
C27_BracketCapped ==
    conc.pc = "bracket" => Cardinality(conc.running) <= MaxImages

C29_FeedbackTurns(turns) ==
    Cardinality({k \in 1..Len(turns) : turns[k].role = "feedback"})

\* C29: a feedback append calls the summarization exactly when the
\* feedback-role turns of the context, the appended one included, number 10
\* or more; generate and refine turns are not counted; a summarization that
\* succeeded has discarded the context, so the count starts again and the next
\* 9 feedback appends call no summarization.
C29_TriggerAtThreshold ==
    (last # None /\ last.op = "add_feedback") =>
        /\ last.triggered <=> last.feedback_count >= 10
        /\ IF last.summarized
           THEN key_of(SessionA, StyleC) \notin DOMAIN sessions
           ELSE /\ key_of(SessionA, StyleC) \in DOMAIN sessions
                /\ last.feedback_count =
                      C29_FeedbackTurns(sessions[key_of(SessionA, StyleC)].turns)
                /\ (was_reset # {} /\ last.feedback_count <= 9) => ~last.triggered

C29_Witness ==
    /\ last # None /\ last.op = "add_feedback" /\ ~last.triggered
    /\ was_reset = {key_of(SessionA, StyleC)}
    /\ style_summary[StyleC] # << >>
    /\ last.feedback_count = 9 /\ last.turn_number = 10
    /\ sessions[key_of(SessionA, StyleC)].turns[1].role = "generate"

\* -------------------------------------------------- claims on SpecSession
C30_Turns(turns, role) ==
    Cardinality({k \in 1..Len(turns) : turns[k].role = role})

\* C30: a generate request on a context that already has turns obtains its
\* history with the refine turns excluded: the call returns, and the list
\* holds two messages for every generate turn of the context and one for
\* every feedback turn.
C30_HistoryRendered ==
    (last # None /\ last.op = "generate" /\ last.turns_before # << >>) =>
        /\ last.history.called /\ ~last.history.raised
        /\ Len(last.history.messages) =
              2 * C30_Turns(last.turns_before, "generate")
                 + C30_Turns(last.turns_before, "feedback")

\* --------------------------------------------------- claims on SpecAnchor
\* position of the last generate turn of a history, 0 when it has none
C31_LastGenerate(turns) ==
    LET gens == {k \in 1..Len(turns) : turns[k].role = "generate"}
    IN IF gens = {} THEN 0 ELSE CHOOSE k \in gens : \A j \in gens : j <= k

\* C31: the anchor a refine request computes is the refined intent of the
\* most recent generate turn of the context it loaded, and it is empty only
\* when that context holds no generate turn.
C31_AnchorIsLastGenerate ==
    (last # None /\ last.op = "refine") =>
        LET g == C31_LastGenerate(last.turns_before)
        IN IF g = 0
           THEN last.original_context = ""
           ELSE /\ last.original_context = last.turns_before[g].refined_intent
                /\ last.original_context # ""

C32_IsRefine(t) == t.role = "refine"
C32_After(turns) ==
    SelectSeq(SubSeq(turns, C31_LastGenerate(turns) + 1, Len(turns)), C32_IsRefine)

C33_At(stage) ==
    {k \in 1..Len(events) : events[k] = ProgressEvent(stage)}

\* C33: in a streaming generate the prompt_compiled event is the first
\* event and the rag_complete event the second, neither is emitted twice,
\* every image event and the complete event come after both, and a stream
\* that has reached its image loop has emitted both.
C33_CheckpointsInOrder ==
    req.api = "generate_streaming" =>
        /\ C33_At("prompt_compiled") \subseteq {1}
        /\ C33_At("rag_complete") \subseteq {2}
        /\ C33_At("rag_complete") # {} => C33_At("prompt_compiled") # {}
        /\ \A k \in 1..Len(events) :
              events[k].event = "progress" =>
                 events[k].stage \in {"prompt_compiled", "rag_complete", "retry"}
        /\ \A k \in 1..Len(events) :
              events[k].event \in {"image", "complete"} =>
                 /\ k > 2
                 /\ C33_At("prompt_compiled") = {1} /\ C33_At("rag_complete") = {2}
        /\ req.pc \in {"retrieved", "streaming", "done"} =>
              C33_At("prompt_compiled") = {1} /\ C33_At("rag_complete") = {2}

C33_Witness ==
    /\ req.api = "generate_streaming" /\ req.pc = "done"
    /\ events[1] = ProgressEvent("prompt_compiled")
    /\ events[2] = ProgressEvent("rag_complete")
    /\ events[3].event = "progress" /\ events[3].stage = "retry"
    /\ events[4].event = "image"
    /\ events[Len(events)].event = "complete"

\* ----------------------------------------------------- claims on SpecRace
\* C34: when a summarization has reset the context while the request was
\* running, and none since the request ended, the context the store returns
\* for the key after the request holds the turn the request recorded.
C34_TurnSurvivesReset ==
    (conc.request = "done" /\ conc.reset_during /\ ~conc.reset_after) =>
        /\ conc.store # 0
        /\ \E k \in 1..Len(conc.heap[conc.store].turns) :
              conc.heap[conc.store].turns[k].role = conc.kind

\* -------------------------------------------------- claims on SpecOutputs
\* C35: no two requests write into the same directory, and no file written
\* by one request is ever written again by another.
C35_NoSharedOutput ==
    /\ ~disk.overwritten
    /\ \A w1, w2 \in Writers :
          (w1 # w2 /\ disk.writers[w1].pc # "start" /\ disk.writers[w2].pc # "start")
             => disk.writers[w1].dir # disk.writers[w2].dir

\* ------------------------------------------------------ claims on SpecGen
C36_Terminal == {k \in 1..Len(events) : events[k].event \in {"complete", "error"}}

C37_Ended == worker.pc \in {"returned", "raised"}

\* C37: whatever the upstream answers, a worker comes to an end, having made
\* at most 3 upstream calls and slept at most twice, and its end is either
\* the return of image bytes or a raised error, never a return without
\* bytes.
C37_WorkerTerminates ==
    /\ <>C37_Ended
    /\ [](worker.calls <= 3 /\ Len(worker.sleeps) <= 2)
    /\ [](worker.pc = "returned" =>
             worker.value = Bytes(worker.index) /\ worker.value # None)
    /\ [](worker.pc = "raised" => worker.value # None /\ worker.value # Bytes(worker.index))
    /\ [][C37_Ended => worker' = worker]_vars

C37_Witness ==
    /\ worker.pc = "raised" /\ worker.mode = "refine"
    /\ worker.calls = 3 /\ Len(worker.sleeps) = 2
    /\ worker.seen[3] \in OtherErrors

\* ------------------------------------------------- claims on SpecFeedback
C38_Key == key_of(SessionA, StyleC)

\* C38: a feedback request whose summarization failed reports the error and
\* leaves the context in the store with every turn it had and the feedback
\* turn just appended as its last turn, and the recorded summary untouched;
\* and a feedback append on a context that already holds 10 or more feedback
\* turns always calls the summarization again.
C38_FailedSummaryKeepsContext ==
    /\ []((last # None /\ last.op = "add_feedback" /\ last.error) =>
            /\ last.triggered /\ ~last.summarized
            /\ C38_Key \in DOMAIN sessions
            /\ Len(sessions[C38_Key].turns) = last.turn_number
            /\ sessions[C38_Key].turns[last.turn_number] =
                  FeedbackTurn(last.turn_number, StyleC))
    /\ [][(last' # None /\ last'.op = "add_feedback" /\ last'.error) =>
            /\ C38_Key \in DOMAIN sessions =>
                  SubSeq(sessions'[C38_Key].turns, 1, last'.turn_number - 1)
                     = sessions[C38_Key].turns
            /\ style_summary' = style_summary
            /\ was_reset' = was_reset]_vars
    /\ [][(/\ C38_Key \in DOMAIN sessions
           /\ feedback_count(sessions[C38_Key]) >= 10
           /\ last' # None /\ last'.op = "add_feedback") =>
            last'.triggered]_vars

C38_Witness ==
    /\ last # None /\ last.op = "add_feedback" /\ last.error
    /\ last.feedback_count = 11 /\ last.turn_number = 12
    /\ sessions[C38_Key].turns[1].role = "generate"
    /\ was_reset = {}

\* -------------------------------------------------- claims on SpecSession
\* the key a summarize request was called with, after the request
C39_Key == key_of(last'.session_id, last'.style_id)

\* C39: a summarize request for a key whose context holds no feedback turn
\* (or that has no context yet) returns no summary and does not fail,
\* whatever the completion service would have answered, leaves the recorded
\* summaries as they were, resets nothing and leaves every existing context
\* with exactly the turns it had.
C39_SummarizeWithoutFeedback ==
    [][(/\ last' # None /\ last'.op = "summarize" /\ ops' = ops + 1
        /\ (C39_Key \in DOMAIN sessions => feedback_count(sessions[C39_Key]) = 0)) =>
          /\ last'.summary = None /\ ~last'.error
          /\ style_summary' = style_summary
          /\ was_reset' = was_reset
          /\ \A k \in DOMAIN sessions :
                k \in DOMAIN sessions' /\ sessions'[k] = sessions[k]]_vars

C39_Witness ==
    /\ last # None /\ last.op = "summarize" /\ ~last.error
    /\ last.session_id = SessionA /\ last.style_id = StyleC
    /\ key_of(SessionA, StyleC) \in DOMAIN sessions
    /\ Len(sessions[key_of(SessionA, StyleC)].turns) = 2
    /\ sessions[key_of(SessionA, StyleC)].turns[1].role = "generate"
    /\ sessions[key_of(SessionA, StyleC)].turns[1].turn_number = 1
    /\ sessions[key_of(SessionA, StyleC)].turns[2].role = "refine"
    /\ sessions[key_of(SessionA, StyleC)].turns[2].turn_number = 2
    /\ was_reset = {}
    /\ last.summary = None

\* ------------------------------------------------ claims on SpecSingleton
\* the session store a request arriving now would use
C40_CurrentStore ==
    IF conc.instance = 0 THEN 0 ELSE conc.objs[conc.instance].session_store

\* C40: the components are constructed at most once, so there is never a
\* second session store, and the turn of every request that has finished is
\* in the store later requests use.
C40_OneSessionStore ==
    /\ Len(conc.objs) <= 1
    /\ Len(conc.stores) <= 1
    /\ \A t \in Threads :
          conc.threads[t].pc = "done" =>
             /\ C40_CurrentStore # 0
             /\ t \in conc.stores[C40_CurrentStore]

====
